---------------------------- MODULE Spec2Model ----------------------------
(***************************************************************************)
(* Forecast engine of AmazonBackendv2: algorithm selection by product age, *)
(* the history-length guards of the entry points, the windowed smoothing   *)
(* primitives, production sizing and the inventory drawdown simulation.    *)
(*                                                                         *)
(* Conventions                                                             *)
(*  - a date is an integer day number; date differences are integers;      *)
(*  - an optional number (Python None, pandas NaN) is a sequence: <<>> is  *)
(*    the absent value and <<v>> the present value v;                      *)
(*  - a float produced by a division is an exact fraction [num, den] with  *)
(*    den > 0; fractions are compared by cross multiplication;             *)
(*  - every family of operations has its own specification whose Init      *)
(*    draws the inputs and whose actions apply the code to them.           *)
(***************************************************************************)
EXTENDS Integers, Sequences, FiniteSets, TLC

VARIABLES
    op,          \* the operation that produced the current results ("none" before any)
    age,         \* selection: the product age handed to the selector
    algorithm,   \* selection: the algorithm name the selector returned
    values,      \* smoothing: the series handed to the weighted average
    weights,     \* smoothing: the weight kernel
    center_idx,  \* smoothing: the index the kernel is centred on (0-based)
    wa,          \* smoothing: what weighted_average returned for values
    wa_prev,     \* smoothing: what it returned before one value was replaced
    replaced,    \* smoothing: the replacement made, [pos, kind, old]
    column_h,    \* smoothing: what _calc_column_h stored for the row center_idx
    units,       \* envelope: the weekly units column C of the historical rows
    future_rows, \* envelope: the number of placeholder rows _prepare_dataframe appended
    peak_env,    \* envelope: column D over the extended series
    final_curve, \* envelope: column G over the extended series, in twelfths
    today,       \* planning: the calculation date
    forecasts,   \* planning: the weekly forecast curve handed to sizing and DOI
    week_dates,  \* planning: the week-end date of every row of the curve
    settings,    \* planning: lead-time settings and total_inventory
    final_forecast,      \* sizing: the forecast column the weekly need was taken from
    weekly_units_needed, \* sizing: the weekly units needed, in 1/700 of a unit
    total_units_needed,  \* sizing: the returned total, in 1/700 of a unit
    units_to_make,       \* sizing: the returned units to make
    doi_trace,   \* DOI: start-of-week and remaining inventory of every simulated week
    doi_days,    \* DOI: the returned days of inventory
    doi_runout_date, \* DOI: the returned run-out date
    product_exists,  \* history: the Product row exists
    sales_rows,      \* history: the number of weekly sales rows of the product
    positive_rows,   \* history: how many of them have units > 0
    has_seasonality, \* history: seasonality or search-volume data were supplied
    primary,         \* history: the algorithm asked for / chosen by the age band
    result,          \* history: the shape of what the entry point returned
    product_search_volume, \* seasonality: the product's search-volume rows, one optional volume per candidate week
    seasonality_data, \* seasonality: the global seasonality table, index in hundredths per week
    units_history, \* seasonality: the rows of units_data, [week, units] in date order
    sv_chain, \* seasonality: columns B and H (in 1/432) of the smoothing chain over 54 weeks
    seasonality_idx_lookup, \* seasonality: the index per week of year, in hundredths
    has_sv_data, \* seasonality: the algorithm found seasonality to use
    needs_seasonality, \* seasonality: the flag of the returned result
    idx_now,          \* ratios: the 0-6m index of the most recent historical week, in hundredths
    forecast_error,   \* ratios: the exception the call ended with ("" when it returned)
    conversion,       \* ratios: the 6-18m Sales/SV value of every row, times 0.97
    peak_conversion,  \* ratios: the 6-18m average peak conversion, times 0.97
    units_final_smooth_85,   \* ratios: column I handed to the velocity column
    prior_year_final_smooth, \* ratios: column L handed to the velocity column
    historical_rows,         \* ratios: how many of the rows end before today
    N_values,                \* ratios: the velocity column N
    sales_history, \* ordering: the weekly sales rows in the order given, [week_end, units]
    curve_by_date, \* ordering: the value of column G stored for every week_end
    wall_clock, \* the wall clock, in ticks
    inventory_levels, \* the inventory argument, the stored inventory rows
    first_sale, \* the first week with sales among the stored rows
    sales_velocity_adjustment, \* the velocity adjustment the sales rows give, in percent
    keys_written, \* the keys the calls have written into the settings dict of the caller
    calls_returned, \* the results returned so far, in call order
    default_settings, \* frame: the module-level DEFAULT_SETTINGS dict
    settings_arg, \* frame: the settings dict the caller passes, None when it passes none
    inventory_arg, \* frame: the inventory dict the caller passes
    units_data_arg, \* frame: the units_data list the caller passes
    velocity_computed, \* frame: the velocity the sales rows give, in percent
    calls_made, \* frame: the number of calls made
    catalogue, \* fan-out: the rows loaded up front, per ASIN
    heap, \* fan-out: the settings dicts, custom_settings at 0 and the dict of each task
    written_by, \* fan-out: the thread that last wrote each dict
    task_pc, \* fan-out: where each calculate_single task stands
    futures, \* fan-out: what each finished task returned
    reads_seen, \* fan-out: the (reader, writer) pairs of the dict reads made
    collected, \* fan-out: the forecasts list of the main thread
    response, \* fan-out: the sorted list sent back
    product_age_days, \* dispatch: days since the first sale of the product
    force_algorithm, \* dispatch: the force_algorithm argument, None when not given
    tps_18m_raises, \* dispatch: whether the 18m+ algorithm raises on the rows
    units_missing, \* dispatch: whether a sales row has no units value
    chosen_algorithm, \* dispatch: the algorithm chosen by age or forced
    ran_algorithm, \* dispatch: the algorithm whose numbers the result holds
    reported_algorithm, \* dispatch: the algorithm name the result reports
    prior_year_j, \* prior year: column J, the prior-year smoothed values of the extended rows
    prior_year_k, \* prior year: column K as computed
    prior_year_smooth, \* adjusted forecast: the prior-year value each row is multiplied from
    adjustments, \* adjusted forecast: market adjustment, velocity adjustment and weight, in percent
    adj_forecast, \* adjusted forecast: column O as computed
    flat_units, \* flat scenario: the units of the weekly sales rows
    history_dates, \* flat scenario: the week_end of the rows
    flat_today, \* flat scenario: today
    flat_result, \* flat scenario: velocity, adjustment and first forecast returned
    units_sold, \* cache refresh: per product, the number of weekly sales rows and the first week with units
    forecast_cache, \* cache refresh: the rows of the table forecast_cache
    utc_now, \* cache refresh: the clock, in hours
    refresh_results, \* cache refresh: the results list of the latest run
    refreshes \* cache refresh: the number of runs so far

selVars == <<age, algorithm>>
waVars == <<values, weights, center_idx, wa, wa_prev, replaced, column_h>>
envVars == <<units, future_rows, peak_env, final_curve>>
planVars == <<today, forecasts, week_dates, settings>>
sizingVars == <<final_forecast, weekly_units_needed, total_units_needed, units_to_make>>
doiVars == <<doi_trace, doi_days, doi_runout_date>>
histInputs == <<product_exists, sales_rows, positive_rows, has_seasonality, primary>>
histVars == <<histInputs, result>>
seasonInputs == <<product_search_volume, seasonality_data, units_history>>
ratioInputs == <<units_final_smooth_85, prior_year_final_smooth, historical_rows>>
seasonVars == <<seasonInputs, ratioInputs, sv_chain, seasonality_idx_lookup, has_sv_data,
                needs_seasonality, idx_now, forecast_error, conversion, peak_conversion,
                N_values>>
orderVars == <<sales_history, curve_by_date>>
orchVars == <<wall_clock, inventory_levels, first_sale, sales_velocity_adjustment,
             keys_written, calls_returned>>
frameVars == <<default_settings, settings_arg, inventory_arg, units_data_arg, velocity_computed, calls_made>>
fanoutVars == <<catalogue, heap, written_by, task_pc, futures, reads_seen, collected, response>>
dispatchVars == <<product_age_days, force_algorithm, tps_18m_raises, units_missing, chosen_algorithm, ran_algorithm, reported_algorithm>>
peakVars == <<prior_year_j, prior_year_k>>
adjustVars == <<prior_year_smooth, adjustments, adj_forecast>>
flatVars == <<flat_units, history_dates, flat_today, flat_result>>
cacheVars == <<units_sold, forecast_cache, utc_now, refresh_results, refreshes>>
vars == <<op, selVars, waVars, envVars, planVars, sizingVars, doiVars, histVars, seasonVars, orderVars, orchVars, frameVars, fanoutVars, dispatchVars, peakVars, adjustVars, flatVars, cacheVars>>

\* what the actions of one family leave alone
outsideSelect == <<waVars, envVars, planVars, sizingVars, doiVars, histVars, seasonVars, orderVars, orchVars, frameVars, fanoutVars, dispatchVars, peakVars, adjustVars, flatVars, cacheVars>>
outsideWA == <<selVars, envVars, planVars, sizingVars, doiVars, histVars, seasonVars, orderVars, orchVars, frameVars, fanoutVars, dispatchVars, peakVars, adjustVars, flatVars, cacheVars>>
outsideEnv == <<selVars, waVars, planVars, sizingVars, doiVars, histVars, seasonVars, orderVars, orchVars, frameVars, fanoutVars, dispatchVars, peakVars, adjustVars, flatVars, cacheVars>>
outsideSizing == <<selVars, waVars, envVars, planVars, doiVars, histVars, seasonVars, orderVars, orchVars, frameVars, fanoutVars, dispatchVars, peakVars, adjustVars, flatVars, cacheVars>>
outsideDoi == <<selVars, waVars, envVars, planVars, sizingVars, histVars, seasonVars, orderVars, orchVars, frameVars, fanoutVars, dispatchVars, peakVars, adjustVars, flatVars, cacheVars>>
outsideHist == <<selVars, waVars, envVars, planVars, sizingVars, doiVars, seasonVars, orderVars, orchVars, frameVars, fanoutVars, dispatchVars, peakVars, adjustVars, flatVars, cacheVars>>
outsideSeason == <<selVars, waVars, envVars, planVars, sizingVars, doiVars, histVars, orderVars, orchVars, frameVars, fanoutVars, dispatchVars, peakVars, adjustVars, flatVars, cacheVars>>
outsideOrder == <<selVars, waVars, envVars, planVars, sizingVars, doiVars, histVars, seasonVars, orchVars, frameVars, fanoutVars, dispatchVars, peakVars, adjustVars, flatVars, cacheVars>>
outsideOrchestration == <<selVars, waVars, envVars, sizingVars, doiVars, histVars, seasonVars, orderVars, frameVars, fanoutVars, dispatchVars, peakVars, adjustVars, flatVars, cacheVars>>
outsideFrame == <<selVars, waVars, envVars, planVars, sizingVars, doiVars, histVars, seasonVars, orderVars, orchVars, fanoutVars, dispatchVars, peakVars, adjustVars, flatVars, cacheVars>>
outsideFanout == <<selVars, waVars, envVars, planVars, sizingVars, doiVars, histVars, seasonVars, orderVars, orchVars, frameVars, dispatchVars, peakVars, adjustVars, flatVars, cacheVars>>
outsideDispatch == <<selVars, waVars, envVars, planVars, sizingVars, doiVars, histVars, seasonVars, orderVars, orchVars, frameVars, fanoutVars, peakVars, adjustVars, flatVars, cacheVars>>
outsidePeak == <<selVars, waVars, envVars, planVars, sizingVars, doiVars, histVars, seasonVars, orderVars, orchVars, frameVars, fanoutVars, dispatchVars, adjustVars, flatVars, cacheVars>>
outsideAdjust == <<selVars, waVars, envVars, planVars, sizingVars, doiVars, histVars, seasonVars, orderVars, orchVars, frameVars, fanoutVars, dispatchVars, peakVars, flatVars, cacheVars>>
outsideFlat == <<selVars, waVars, envVars, planVars, sizingVars, doiVars, histVars, seasonVars, orderVars, orchVars, frameVars, fanoutVars, dispatchVars, peakVars, adjustVars, cacheVars>>
outsideCache == <<selVars, waVars, envVars, planVars, sizingVars, doiVars, histVars, seasonVars, orderVars, orchVars, frameVars, fanoutVars, dispatchVars, peakVars, adjustVars, flatVars>>

\* Python None / pandas NaN, and a present value
None == <<>>
Some(v) == <<v>>
IsNone(x) == x = <<>>
Val(x) == x[1]

Max2(a, b) == IF a >= b THEN a ELSE b
Min2(a, b) == IF a <= b THEN a ELSE b

(***************************************************************************)
(* Fractions                                                               *)
(***************************************************************************)
Frac(n, d) == [num |-> n, den |-> d]
FracEq(p, q) == p.num * q.den = q.num * p.den
FracLe(p, q) == p.num * q.den <= q.num * p.den
FracGeInt(p, k) == p.num >= k * p.den

(***************************************************************************)
(* Settings, result shapes, and the idle values of every family            *)
(***************************************************************************)
\* DEFAULT_SETTINGS, the keys the sizing reads; settings.get('total_inventory', 0)
DEFAULT_SETTINGS ==
    [amazon_doi_goal |-> 93, inbound_lead_time |-> 30, manufacture_lead_time |-> 7,
     total_inventory |-> 0]

SettingsOf(goal, inbound, manufacture, inventory) ==
    [amazon_doi_goal |-> goal, inbound_lead_time |-> inbound,
     manufacture_lead_time |-> manufacture, total_inventory |-> inventory]

Result(error, units_to_make_key, doi_key) ==
    [error |-> error, units_to_make |-> units_to_make_key, doi_total_days |-> doi_key]

NoResult == Result("", "absent", "absent")

(***************************************************************************)
(* Bounds of the selection family                                          *)
(***************************************************************************)
MaxAgeDays == 600
MaxAgeCenti == 1900

(***************************************************************************)
(* Algorithm selection by product age                                      *)
(***************************************************************************)
\* age_days / 30.44, the conversion every call site uses
AgeMonths(age_days) == Frac(age_days * 100, 3044)

\* a float argument given in hundredths of a month
CentiMonths(c) == Frac(c, 100)

determine_algorithm_strict(product_age_months) ==
    IF product_age_months.num > 18 * product_age_months.den THEN "18m+"
    ELSE IF product_age_months.num > 6 * product_age_months.den THEN "6-18m"
    ELSE "0-6m"

\* ForecastService.determine_algorithm
determine_algorithm(product_age_months) ==
    IF FracGeInt(product_age_months, 18) THEN "18m+"
    ELSE IF FracGeInt(product_age_months, 6) THEN "6-18m"
    ELSE "0-6m"

\* get_all_forecasts.calculate_single: the conditional expression on age_months
calculate_single_algorithm(age_days) ==
    LET age_months == AgeMonths(age_days)
    IN  IF FracGeInt(age_months, 18) THEN "18m+"
        ELSE (IF FracGeInt(age_months, 6) THEN "6-18m" ELSE "0-6m")

\* CacheService.refresh_all_forecasts: the if/elif/else on age_months
refresh_all_forecasts_algorithm(age_days) ==
    LET age_months == AgeMonths(age_days)
    IN  IF FracGeInt(age_months, 18) THEN "18m+"
        ELSE IF FracGeInt(age_months, 6) THEN "6-18m"
        ELSE "0-6m"

AgeInputs ==
    [unit : {"days"}, n : 0..MaxAgeDays] \cup [unit : {"centimonths"}, n : 0..MaxAgeCenti]

AgeOf(a) == IF a.unit = "days" THEN AgeMonths(a.n) ELSE CentiMonths(a.n)

SelIdle == age = None /\ algorithm = "none"

WaIdle ==
    /\ values = <<>> /\ weights = <<>> /\ center_idx = 0
    /\ wa = None /\ wa_prev = None /\ column_h = None
    /\ replaced = [pos |-> -1, kind |-> "none", old |-> 0]

EnvIdle == units = <<>> /\ future_rows = 0 /\ peak_env = <<>> /\ final_curve = <<>>

PlanInputsIdle ==
    today = 0 /\ forecasts = <<>> /\ week_dates = <<>> /\ settings = DEFAULT_SETTINGS

SizingIdle ==
    /\ final_forecast = <<>>
    /\ weekly_units_needed = <<>>
    /\ total_units_needed = None
    /\ units_to_make = None

DoiIdle == doi_trace = <<>> /\ doi_days = None /\ doi_runout_date = None

HistIdle ==
    /\ product_exists = FALSE
    /\ sales_rows = 0
    /\ positive_rows = 0
    /\ has_seasonality = FALSE
    /\ primary = "none"
    /\ result = NoResult

SeasonIdle ==
    /\ product_search_volume = <<>> /\ seasonality_data = <<>> /\ units_history = <<>>
    /\ units_final_smooth_85 = <<>> /\ prior_year_final_smooth = <<>>
    /\ historical_rows = 0
    /\ sv_chain = <<>> /\ seasonality_idx_lookup = <<>>
    /\ has_sv_data = FALSE /\ needs_seasonality = None
    /\ idx_now = None /\ forecast_error = "" /\ conversion = <<>>
    /\ peak_conversion = None /\ N_values = <<>>

OrderIdle ==
    sales_history = <<>> /\ curve_by_date = <<>>

OrchestrationIdle ==
    /\ wall_clock = 0
    /\ inventory_levels = None
    /\ first_sale = None
    /\ sales_velocity_adjustment = None
    /\ keys_written = {}
    /\ calls_returned = <<>>

FrameIdle ==
    /\ default_settings = {}
    /\ settings_arg = None
    /\ inventory_arg = None
    /\ units_data_arg = <<>>
    /\ velocity_computed = 0
    /\ calls_made = 0

FanoutIdle ==
    /\ catalogue = <<>>
    /\ heap = <<>>
    /\ written_by = <<>>
    /\ task_pc = <<>>
    /\ futures = <<>>
    /\ reads_seen = {}
    /\ collected = <<>>
    /\ response = None

DispatchIdle ==
    /\ product_age_days = 0
    /\ force_algorithm = None
    /\ tps_18m_raises = FALSE
    /\ units_missing = FALSE
    /\ chosen_algorithm = "none"
    /\ ran_algorithm = "none"
    /\ reported_algorithm = "none"

PeakIdle ==
    prior_year_j = <<>> /\ prior_year_k = <<>>

AdjustIdle ==
    prior_year_smooth = <<>> /\ adjustments = None /\ adj_forecast = <<>>

FlatIdle ==
    flat_units = <<>> /\ history_dates = <<>> /\ flat_today = 0 /\ flat_result = None

CacheIdle ==
    units_sold = <<>> /\ forecast_cache = {} /\ utc_now = 0 /\ refresh_results = {} /\ refreshes = 0

\* no family but the one under way holds anything
OthersIdle(family) ==
    /\ family = "select" \/ SelIdle
    /\ family = "wa" \/ WaIdle
    /\ family = "env" \/ EnvIdle
    /\ family \in {"sizing", "doi", "orchestration", "fanout", "adjust"} \/ PlanInputsIdle
    /\ family = "sizing" \/ SizingIdle
    /\ family = "doi" \/ DoiIdle
    /\ family = "history" \/ HistIdle
    /\ family = "season" \/ SeasonIdle
    /\ family = "order" \/ OrderIdle
    /\ family = "orchestration" \/ OrchestrationIdle
    /\ family = "frame" \/ FrameIdle
    /\ family = "fanout" \/ FanoutIdle
    /\ family = "dispatch" \/ DispatchIdle
    /\ family = "peak" \/ PeakIdle
    /\ family = "adjust" \/ AdjustIdle
    /\ family = "flat" \/ FlatIdle
    /\ family = "cache" \/ CacheIdle

InitSelect ==
    /\ op = "none"
    /\ age \in AgeInputs
    /\ algorithm = "none"
    /\ OthersIdle("select")

DetermineAlgorithm ==
    /\ op = "none"
    /\ algorithm' = determine_algorithm(AgeOf(age))
    /\ op' = "determine_algorithm"
    /\ UNCHANGED <<age, outsideSelect>>

CalculateSingleSelect ==
    /\ op = "none"
    /\ age.unit = "days"
    /\ algorithm' = calculate_single_algorithm(age.n)
    /\ op' = "calculate_single"
    /\ UNCHANGED <<age, outsideSelect>>

RefreshSelect ==
    /\ op = "none"
    /\ age.unit = "days"
    /\ algorithm' = refresh_all_forecasts_algorithm(age.n)
    /\ op' = "refresh_all_forecasts"
    /\ UNCHANGED <<age, outsideSelect>>

NextSelect == DetermineAlgorithm \/ CalculateSingleSelect \/ RefreshSelect

SpecSelect == InitSelect /\ [][NextSelect]_vars

(***************************************************************************)
(* C1: every selector returns "0-6m" for an age below 6 months, "6-18m"    *)
(* for an age of at least 6 and below 18 months, and "18m+" for an age of  *)
(* at least 18 months; the boundaries 6 and 18 belong to the older band,   *)
(* at all three call sites.                                                *)
(***************************************************************************)
C1_SelectionBands ==
    op \in {"determine_algorithm", "calculate_single", "refresh_all_forecasts"} =>
        LET m == AgeOf(age)
        IN  /\ (m.num < 6 * m.den) => algorithm = "0-6m"
            /\ (m.num >= 6 * m.den /\ m.num < 18 * m.den) => algorithm = "6-18m"
            /\ (m.num >= 18 * m.den) => algorithm = "18m+"

\* the selector has run on an age of exactly 18.00 months
C1_Witness ==
    /\ op = "determine_algorithm"
    /\ age = [unit |-> "centimonths", n |-> 1800]
    /\ algorithm = "18m+"

(***************************************************************************)
(* Windowed smoothing primitives: the weighted centred average             *)
(***************************************************************************)
MaxSeries == 4
MaxValue == 2

\* series elements: absent, zero, or a positive value
SeriesValues == {None} \cup {Some(v) : v \in 0..MaxValue}

SeqsUpTo(S, n) == UNION {[1..k -> S] : k \in 1..n}

\* the two kernels of the code and a short one
SMOOTH_WEIGHTS_H == <<1, 2, 4, 7, 11, 13, 11, 7, 4, 2, 1>>
SMOOTH_WEIGHTS_L == <<1, 3, 5, 7, 5, 3, 1>>
Kernels == {<<1, 2, 1>>, SMOOTH_WEIGHTS_L, SMOOTH_WEIGHTS_H}

\* the for loop of weighted_average: i runs over enumerate(weights)
RECURSIVE wa_loop(_, _, _, _, _, _)
wa_loop(vals, wts, center, i, weighted_sum, weight_sum) ==
    IF i >= Len(wts) THEN <<weighted_sum, weight_sum>>
    ELSE LET half_len == Len(wts) \div 2
             idx == center - half_len + i
             w == wts[i + 1]
         IN  IF 0 <= idx /\ idx < Len(vals) /\ ~IsNone(vals[idx + 1]) /\ Val(vals[idx + 1]) > 0
             THEN wa_loop(vals, wts, center, i + 1, weighted_sum + Val(vals[idx + 1]) * w, weight_sum + w)
             ELSE wa_loop(vals, wts, center, i + 1, weighted_sum, weight_sum)

\* the same loop with a zero counted as a value (>= 0 in place of > 0)
RECURSIVE wa_loop_zero(_, _, _, _, _, _)
wa_loop_zero(vals, wts, center, i, weighted_sum, weight_sum) ==
    IF i >= Len(wts) THEN <<weighted_sum, weight_sum>>
    ELSE LET half_len == Len(wts) \div 2
             idx == center - half_len + i
             w == wts[i + 1]
         IN  IF 0 <= idx /\ idx < Len(vals) /\ ~IsNone(vals[idx + 1]) /\ Val(vals[idx + 1]) >= 0
             THEN wa_loop_zero(vals, wts, center, i + 1, weighted_sum + Val(vals[idx + 1]) * w, weight_sum + w)
             ELSE wa_loop_zero(vals, wts, center, i + 1, weighted_sum, weight_sum)

weighted_average_counts_zero(vals, wts, center) ==
    LET r == wa_loop_zero(vals, wts, center, 0, 0, 0)
    IN  IF r[2] > 0 THEN Frac(r[1], r[2]) ELSE Frac(0, 1)

\* the weight of every in-range position is counted, whatever its value
RECURSIVE wa_loop_all(_, _, _, _, _, _)
wa_loop_all(vals, wts, center, i, weighted_sum, weight_sum) ==
    IF i >= Len(wts) THEN <<weighted_sum, weight_sum>>
    ELSE LET half_len == Len(wts) \div 2
             idx == center - half_len + i
             w == wts[i + 1]
         IN  IF 0 <= idx /\ idx < Len(vals)
             THEN wa_loop_all(vals, wts, center, i + 1,
                      weighted_sum + (IF ~IsNone(vals[idx + 1]) /\ Val(vals[idx + 1]) > 0
                                      THEN Val(vals[idx + 1]) * w ELSE 0),
                      weight_sum + w)
             ELSE wa_loop_all(vals, wts, center, i + 1, weighted_sum, weight_sum)

weighted_average_all_weights(vals, wts, center) ==
    LET r == wa_loop_all(vals, wts, center, 0, 0, 0)
    IN  IF r[2] > 0 THEN Frac(r[1], r[2]) ELSE Frac(0, 1)

\* weighted_average(values, weights, center_idx)
weighted_average(vals, wts, center) ==
    LET r == wa_loop(vals, wts, center, 0, 0, 0)
    IN  IF r[2] > 0 THEN Frac(r[1], r[2]) ELSE Frac(0, 1)

\* Forecast18MonthPlusV2._calc_column_h for one historical row i: the cell stays
\* NaN when no offset qualifies
calc_column_h_row(G, i) ==
    LET r == wa_loop(G, SMOOTH_WEIGHTS_H, i, 0, 0, 0)
    IN  IF r[2] > 0 THEN Some(Frac(r[1], r[2])) ELSE None

InitWA ==
    /\ op = "none"
    /\ OthersIdle("wa")
    /\ values \in SeqsUpTo(SeriesValues, MaxSeries)
    /\ weights \in Kernels
    /\ center_idx \in 0..(Len(values) - 1)
    /\ wa = None /\ wa_prev = None /\ column_h = None
    /\ replaced = [pos |-> -1, kind |-> "none", old |-> 0]

WeightedAverage ==
    /\ op = "none"
    /\ wa' = Some(weighted_average(values, weights, center_idx))
    /\ op' = "weighted_average"
    /\ UNCHANGED <<outsideWA, values, weights, center_idx, wa_prev, replaced, column_h>>

CalcColumnH ==
    /\ op = "none"
    /\ weights = SMOOTH_WEIGHTS_H
    /\ column_h' = calc_column_h_row(values, center_idx)
    /\ op' = "_calc_column_h"
    /\ UNCHANGED <<outsideWA, values, weights, center_idx, wa, wa_prev, replaced>>

ReplacementKind(old, new) ==
    IF IsNone(old) /\ new = Some(0) THEN "absent_to_zero"
    ELSE IF old = Some(0) /\ IsNone(new) THEN "zero_to_absent"
    ELSE IF ~IsNone(old) /\ Val(old) > 0 /\ new = Some(0) THEN "positive_to_zero"
    ELSE "other"

\* one value of the series is replaced and the average is computed again
ReplaceAndRecompute ==
    /\ op = "weighted_average"
    /\ \E pos \in 0..(Len(values) - 1), new \in {None, Some(0)} :
          /\ ReplacementKind(values[pos + 1], new) # "other"
          /\ values' = [values EXCEPT ![pos + 1] = new]
          /\ replaced' = [pos |-> pos, kind |-> ReplacementKind(values[pos + 1], new),
                          old |-> IF IsNone(values[pos + 1]) THEN 0 ELSE Val(values[pos + 1])]
    /\ wa_prev' = wa
    /\ wa' = Some(weighted_average(values', weights, center_idx))
    /\ op' = "replace_and_recompute"
    /\ UNCHANGED <<outsideWA, weights, center_idx, column_h>>

NextWA == WeightedAverage \/ CalcColumnH \/ ReplaceAndRecompute

SpecWA == InitWA /\ [][NextWA]_vars

\* the kernel offsets that qualify: inside the series, present, strictly positive
Qualifying(vals, wts, center) ==
    {k \in 0..(Len(wts) - 1) :
        LET idx == center - (Len(wts) \div 2) + k
        IN  0 <= idx /\ idx < Len(vals) /\ ~IsNone(vals[idx + 1]) /\ Val(vals[idx + 1]) > 0}

RECURSIVE SumOver(_, _)
SumOver(S, f) ==
    IF S = {} THEN 0 ELSE LET x == CHOOSE y \in S : TRUE IN f[x] + SumOver(S \ {x}, f)

QualNum(vals, wts, center) ==
    LET Q == Qualifying(vals, wts, center)
        term == [k \in Q |-> Val(vals[center - (Len(wts) \div 2) + k + 1]) * wts[k + 1]]
    IN  SumOver(Q, term)

QualDen(vals, wts, center) ==
    LET Q == Qualifying(vals, wts, center)
        term == [k \in Q |-> wts[k + 1]]
    IN  SumOver(Q, term)

ExclusionRule(returned, vals, wts, center) ==
    IF Qualifying(vals, wts, center) = {}
    THEN returned.num = 0
    ELSE returned.num * QualDen(vals, wts, center) = QualNum(vals, wts, center) * returned.den

(***************************************************************************)
(* C4: weighted_average returns sum(value * weight) / sum(weight) over     *)
(* exactly the kernel offsets that lie inside the series and hold a        *)
(* strictly positive value, and 0 when none qualifies; replacing a zero by *)
(* an absent value, or an absent value by a zero, leaves the result        *)
(* unchanged. A cell _calc_column_h fills holds the same quotient.         *)
(***************************************************************************)
C4_ExclusionRule ==
    /\ op \in {"weighted_average", "replace_and_recompute"} =>
          ExclusionRule(Val(wa), values, weights, center_idx)
    /\ (op = "replace_and_recompute" /\ replaced.kind \in {"zero_to_absent", "absent_to_zero"}) =>
          /\ Val(wa).num = Val(wa_prev).num
          /\ Val(wa).den = Val(wa_prev).den
    /\ (op = "_calc_column_h" /\ ~IsNone(column_h)) =>
          ExclusionRule(Val(column_h), values, weights, center_idx)

\* a zero inside the window, next to a positive value, was replaced by an absent value
C4_Witness ==
    /\ op = "replace_and_recompute"
    /\ replaced.kind = "zero_to_absent"
    /\ replaced.pos = center_idx
    /\ Val(wa).num > 0
    /\ Cardinality(Qualifying(values, weights, center_idx)) >= 2

InWindow(pos, wts, center) ==
    /\ pos - center <= Len(wts) \div 2
    /\ center - pos <= Len(wts) \div 2

(***************************************************************************)
(* C5 as stated: replacing a strictly positive value inside the kernel     *)
(* window of i by zero changes the weighted average computed at i.         *)
(***************************************************************************)
C5_AlwaysChanges ==
    (/\ op = "replace_and_recompute"
     /\ replaced.kind = "positive_to_zero"
     /\ InWindow(replaced.pos, weights, center_idx)) =>
        ~FracEq(Val(wa), Val(wa_prev))

(***************************************************************************)
(* C5 amended: replacing a strictly positive value v inside the kernel     *)
(* window of i by zero removes its term v*w from the numerator and w from  *)
(* the denominator; the average at i changes unless other qualifying       *)
(* terms remain and v equals their weighted average, in which case it is   *)
(* unchanged.                                                              *)
(***************************************************************************)
C5_ChangesUnlessEqualToRest ==
    (/\ op = "replace_and_recompute"
     /\ replaced.kind = "positive_to_zero"
     /\ InWindow(replaced.pos, weights, center_idx)) =>
        LET w == weights[replaced.pos - center_idx + (Len(weights) \div 2) + 1]
            v == replaced.old
            restNum == QualNum(values, weights, center_idx)
            restDen == QualDen(values, weights, center_idx)
            before == Val(wa_prev)
            after == Val(wa)
        IN  /\ before.num * (restDen + w) = (restNum + v * w) * before.den
            /\ IF restDen = 0 THEN after.num = 0
               ELSE after.num * restDen = restNum * after.den
            /\ FracEq(after, before) <=> (restDen > 0 /\ v * restDen = restNum)

\* a positive value was zeroed and the average moved
C5_Witness ==
    /\ op = "replace_and_recompute"
    /\ replaced.kind = "positive_to_zero"
    /\ InWindow(replaced.pos, weights, center_idx)
    /\ Cardinality(Qualifying(values, weights, center_idx)) >= 1
    /\ ~FracEq(Val(wa), Val(wa_prev))

(***************************************************************************)
(* Windowed smoothing primitives: the peak envelope (column D) and the     *)
(* curve chain D -> E -> F -> G built on it                                *)
(***************************************************************************)
MaxFutureRows == 2

\* calculate_forecast_18m_plus calls calculate_units_final_curve(units_data, extend_weeks=10)
extend_weeks == 10

\* units.append(None), extend_weeks times
extend_units(u, k) == u \o [j \in 1..k |-> None]

\* Python max() of a non-empty list, left to right
RECURSIVE ListMax(_)
ListMax(l) ==
    IF Len(l) = 1 THEN l[1] ELSE Max2(l[1], ListMax(Tail(l)))

\* [units[j] for j in indices if 0 <= j < n and units[j] is not None]
RECURSIVE PresentAt(_, _)
PresentAt(u, indices) ==
    IF indices = <<>> THEN <<>>
    ELSE LET j == Head(indices)
             rest == PresentAt(u, Tail(indices))
         IN  IF 0 <= j /\ j < Len(u) /\ ~IsNone(u[j + 1]) THEN <<Val(u[j + 1])>> \o rest ELSE rest

\* the envelope without the look-ahead row i+1
tps_peak_env_at_no_lookahead(u, n_original, i) ==
    IF i >= n_original THEN 0
    ELSE IF IsNone(u[i + 1]) THEN 0
    ELSE LET vals == PresentAt(u, <<i - 2, i - 1, i>>)
         IN  IF vals # <<>> THEN ListMax(vals) ELSE 0

\* calculate_units_final_curve, column D at row i of the extended series u
tps_peak_env_at(u, n_original, i) ==
    IF i >= n_original THEN 0
    ELSE IF IsNone(u[i + 1]) THEN 0
    ELSE LET vals == PresentAt(u, <<i - 2, i - 1, i, i + 1>>)
         IN  IF vals # <<>> THEN ListMax(vals) ELSE 0

\* a column built row by row, as the list the loop appended to
Column(f) == f \o <<>>

tps_peak_env(u, n_original) ==
    Column([k \in 1..Len(u) |-> tps_peak_env_at(u, n_original, k - 1)])

\* column E in twelfths: (D[i] + D[i+1]) / 2, D_next = 0 past the end
tps_peak_env_offset(D) ==
    Column([k \in 1..Len(D) |-> 6 * (D[k] + (IF k + 1 <= Len(D) THEN D[k + 1] ELSE 0))])

\* column F in twelfths: the mean of E[i-1], E[i], E[i+1] that are in range
tps_smooth_env(E) ==
    Column([k \in 1..Len(E) |->
        LET idxs == {j \in {k - 1, k, k + 1} : 1 <= j /\ j <= Len(E)}
            total == (IF k - 1 \in idxs THEN E[k - 1] ELSE 0) + E[k]
                     + (IF k + 1 \in idxs THEN E[k + 1] ELSE 0)
        IN  total \div Cardinality(idxs)])

\* calculate_units_final_curve: column G in twelfths, MAX(C, E, F) with a blank C as 0
calculate_units_final_curve(units_data, ext) ==
    IF Len(units_data) = 0 THEN <<>>
    ELSE LET u == extend_units(units_data, ext)
             D == tps_peak_env(u, Len(units_data))
             E == tps_peak_env_offset(D)
             F == tps_smooth_env(E)
         IN  [k \in 1..Len(u) |->
                Max2(12 * (IF IsNone(u[k]) THEN 0 ELSE Val(u[k])), Max2(E[k], F[k]))]

\* window.max() of a pandas Series: NaN is skipped, NaN when nothing is left
SeriesMax(window) ==
    LET vals == PresentAt(window, [k \in 1..Len(window) |-> k - 1])
    IN  IF vals = <<>> THEN None ELSE Some(ListMax(vals))

\* the v2 envelope with the slice ending at row i (C.iloc[start:i+1])
v2_peak_env_at_no_lookahead(C, i) ==
    LET start == Max2(0, i - 2)
        end == Min2(Len(C), i + 1)
    IN  SeriesMax(SubSeq(C, start + 1, end))

\* Forecast18MonthPlusV2._calc_units_final_smooth_85, column D at row i
v2_peak_env_at(C, i) ==
    LET start == Max2(0, i - 2)
        end == Min2(Len(C), i + 2)
    IN  SeriesMax(SubSeq(C, start + 1, end))

v2_peak_env(C) == Column([k \in 1..Len(C) |-> v2_peak_env_at(C, k - 1)])

\* column E of v2 in twelfths: NaN as soon as D[i] or D[i+1] is NaN; the last row is D
v2_peak_env_offset(D) ==
    Column([k \in 1..Len(D) |->
        IF k + 1 <= Len(D)
        THEN IF IsNone(D[k]) \/ IsNone(D[k + 1]) THEN None ELSE Some(6 * (Val(D[k]) + Val(D[k + 1])))
        ELSE IF IsNone(D[k]) THEN None ELSE Some(12 * Val(D[k]))])

\* column F of v2: window.mean() skips NaN; the quotient is kept as a fraction of twelfths
v2_smooth_env(E) ==
    Column([k \in 1..Len(E) |->
        LET idxs == {j \in {k - 1, k, k + 1} : 1 <= j /\ j <= Len(E) /\ ~IsNone(E[j])}
            total == (IF k - 1 \in idxs THEN Val(E[k - 1]) ELSE 0)
                     + (IF k \in idxs THEN Val(E[k]) ELSE 0)
                     + (IF k + 1 \in idxs THEN Val(E[k + 1]) ELSE 0)
        IN  IF idxs = {} THEN None ELSE Some(Frac(total, Cardinality(idxs)))])

\* column G of v2: the row maximum of C, E, F, NaN skipped (fractions of twelfths)
v2_final_curve(C, E, F) ==
    [k \in 1..Len(C) |->
        LET cands == (IF IsNone(C[k]) THEN {} ELSE {Frac(12 * Val(C[k]), 1)})
                     \cup (IF IsNone(E[k]) THEN {} ELSE {Frac(Val(E[k]), 1)})
                     \cup (IF IsNone(F[k]) THEN {} ELSE {Val(F[k])})
        IN  IF cands = {} THEN None
            ELSE Some(CHOOSE g \in cands : \A h \in cands : FracLe(h, g))]

InitEnv ==
    /\ op = "none"
    /\ OthersIdle("env")
    /\ units \in SeqsUpTo(SeriesValues, MaxSeries) \cup {<<>>}
    /\ future_rows \in 0..MaxFutureRows
    /\ peak_env = <<>>
    /\ final_curve = <<>>

\* calculate_units_final_curve(units_data, extend_weeks=10)
CalculateUnitsFinalCurve ==
    /\ op = "none"
    /\ future_rows = 0
    /\ peak_env' = (IF Len(units) = 0 THEN <<>>
                    ELSE LET D == tps_peak_env(extend_units(units, extend_weeks), Len(units))
                         IN  [k \in 1..Len(D) |-> Some(D[k])])
    /\ final_curve' = calculate_units_final_curve(units, extend_weeks)
    /\ op' = "calculate_units_final_curve"
    /\ UNCHANGED <<outsideEnv, units, future_rows>>

\* Forecast18MonthPlusV2._calc_units_final_smooth_85, columns D to G
CalcUnitsFinalSmooth85 ==
    /\ op = "none"
    /\ Len(units) >= 1
    /\ LET C == extend_units(units, future_rows)
           D == v2_peak_env(C)
           E == v2_peak_env_offset(D)
           F == v2_smooth_env(E)
       IN  /\ peak_env' = D
           /\ final_curve' = v2_final_curve(C, E, F)
    /\ op' = "_calc_units_final_smooth_85"
    /\ UNCHANGED <<outsideEnv, units, future_rows>>

NextEnv == CalculateUnitsFinalCurve \/ CalcUnitsFinalSmooth85

SpecEnv == InitEnv /\ [][NextEnv]_vars

\* the series the envelope was computed over
ExtendedUnits ==
    IF op = "calculate_units_final_curve" THEN extend_units(units, extend_weeks)
    ELSE extend_units(units, future_rows)

\* the present values at positions i-2 .. i+1 that lie inside the series
WindowPresent(u, i) ==
    {Val(u[j + 1]) : j \in {j \in (i - 2)..(i + 1) : 0 <= j /\ j < Len(u) /\ ~IsNone(u[j + 1])}}

SetMax(S) == CHOOSE x \in S : \A y \in S : y <= x

\* the envelope the claim describes: the maximum of the present values, 0 when none
EnvelopeOf(u, i) == IF WindowPresent(u, i) = {} THEN 0 ELSE SetMax(WindowPresent(u, i))

(***************************************************************************)
(* C6 as stated: at every position i of the extended series the peak       *)
(* envelope is the maximum of the present values at i-2 .. i+1 inside the  *)
(* series (0 is a value, absent is excluded), and 0 when the window holds  *)
(* no present value, in both implementations. A NaN cell of the pandas     *)
(* implementation over an empty window is read as that 0.                  *)
(***************************************************************************)
C6_EnvelopeEverywhere ==
    op \in {"calculate_units_final_curve", "_calc_units_final_smooth_85"} =>
        \A i \in 0..(Len(peak_env) - 1) :
            IF IsNone(peak_env[i + 1]) THEN WindowPresent(ExtendedUnits, i) = {}
            ELSE Val(peak_env[i + 1]) = EnvelopeOf(ExtendedUnits, i)

(***************************************************************************)
(* C6 amended: at every position i whose own value is present the peak     *)
(* envelope is the maximum of the present values at i-2 .. i+1 inside the  *)
(* series (0 is a value, absent is excluded), in both implementations. At  *)
(* a position whose own value is absent, which includes every placeholder  *)
(* week, calculate_units_final_curve yields 0 whatever the window holds,   *)
(* and _calc_units_final_smooth_85 yields the maximum of the present       *)
(* values of the window, or NaN when the window holds none.                *)
(***************************************************************************)
C6_EnvelopeWherePresent ==
    /\ op \in {"calculate_units_final_curve", "_calc_units_final_smooth_85"} =>
          /\ Len(peak_env) = Len(ExtendedUnits) \/ (Len(units) = 0 /\ peak_env = <<>>)
          /\ \A i \in 0..(Len(peak_env) - 1) :
                ~IsNone(ExtendedUnits[i + 1]) =>
                    /\ ~IsNone(peak_env[i + 1])
                    /\ Val(peak_env[i + 1]) = SetMax(WindowPresent(ExtendedUnits, i))
    /\ op = "calculate_units_final_curve" =>
          \A i \in 0..(Len(peak_env) - 1) :
              IsNone(ExtendedUnits[i + 1]) => peak_env[i + 1] = Some(0)
    /\ op = "_calc_units_final_smooth_85" =>
          \A i \in 0..(Len(peak_env) - 1) :
              IsNone(ExtendedUnits[i + 1]) =>
                  IF WindowPresent(ExtendedUnits, i) = {} THEN IsNone(peak_env[i + 1])
                  ELSE peak_env[i + 1] = Some(SetMax(WindowPresent(ExtendedUnits, i)))

\* a present zero next to an absent value and a larger look-ahead value
C6_Witness ==
    /\ op = "calculate_units_final_curve"
    /\ Len(units) = 3
    /\ units[1] = None /\ units[2] = Some(0) /\ units[3] = Some(2)
    /\ peak_env[2] = Some(2)
    /\ peak_env[3] = Some(2)
    /\ peak_env[4] = Some(0)

(***************************************************************************)
(* Production sizing: weekly units needed over the planning window and     *)
(* units to make.  Units needed are integers counting 1/700 of a unit, the *)
(* common denominator of the /7 of the overlap and the hundredths of the   *)
(* calibration factors.                                                    *)
(***************************************************************************)
MaxPattern == 2

\* a table that leaves every algorithm uncalibrated
CALIBRATION_FACTORS_unit ==
    [a \in {"0-6m", "6-18m", "18m+"} |-> 100]

\* CALIBRATION_FACTORS, in hundredths
CALIBRATION_FACTORS ==
    [a \in {"0-6m", "6-18m", "18m+"} |-> IF a = "0-6m" THEN 82 ELSE 100]

ForecastValues == {0, 1, 2, 50}

SettingsInputs ==
    {DEFAULT_SETTINGS, [DEFAULT_SETTINGS EXCEPT !.total_inventory = 500],
     SettingsOf(0, 0, 0, 0), SettingsOf(2, 1, 0, 1), SettingsOf(5, 3, 1, 3),
     SettingsOf(10, 4, 0, 20)}

\* day numbers; day 0 is a Monday, so date.weekday() is the day number modulo 7
Todays == {0, 4, 5}
FirstOffsets == {-9, -3, 0, 2, 7}
WeekCounts == {1, 3, 20}

weekday(d) == d % 7

\* settings.get('amazon_doi_goal', 93) + settings.get('inbound_lead_time', 30)
\*   + settings.get('manufacture_lead_time', 7)
lead_time_days_of(s) == s.amazon_doi_goal + s.inbound_lead_time + s.manufacture_lead_time

\* the Saturday week-ends generated by the 0-6m and 6-18m algorithms:
\* from the first Saturday after today, weekly, while <= lead_time_end + 365 days
first_saturday(t) ==
    LET days_until_saturday == (5 - weekday(t)) % 7
    IN  t + (IF days_until_saturday = 0 THEN 7 ELSE days_until_saturday)

SaturdayDates(t, lead) ==
    LET first == first_saturday(t)
        last == t + lead + 365
        n == ((last - first) \div 7) + 1
    IN  [k \in 1..n |-> first + 7 * (k - 1)]

WeeklyDates(first, n) == [k \in 1..n |-> first + 7 * (k - 1)]

\* a weekly curve that repeats a short pattern
PatternForecasts(pattern, n) == [k \in 1..n |-> pattern[((k - 1) % Len(pattern)) + 1]]

RECURSIVE SeqSum(_)
SeqSum(l) == IF l = <<>> THEN 0 ELSE Head(l) + SeqSum(Tail(l))

\* Python round(n / d) for d > 0: to nearest, ties to the even integer
RoundHalfEven(n, d) ==
    LET q == n \div d
        r == n - q * d
    IN  IF 2 * r < d THEN q
        ELSE IF 2 * r > d THEN q + 1
        ELSE IF q % 2 = 0 THEN q ELSE q + 1

\* int(n / d): truncation toward zero
IntTrunc(n, d) == IF n >= 0 THEN n \div d ELSE -((-n) \div d)

\* the overlap with week_start = week_end - 6 days
calculate_weekly_units_needed_six_day(fc, wd, t, lead) ==
    [k \in 1..Min2(Len(fc), Len(wd)) |->
        IF fc[k] = 0 THEN 0
        ELSE LET week_start == wd[k] - 6
                 period_start == Max2(t, week_start)
                 period_end == Min2(t + lead, wd[k])
                 overlap_days == period_end - period_start
             IN  IF overlap_days > 0 THEN fc[k] * overlap_days * 100 ELSE 0]

\* calculate_weekly_units_needed(forecasts, week_dates, today, lead_time_days)
calculate_weekly_units_needed(fc, wd, t, lead) ==
    [k \in 1..Min2(Len(fc), Len(wd)) |->
        IF fc[k] = 0 THEN 0
        ELSE LET week_start == wd[k] - 7
                 period_start == Max2(t, week_start)
                 period_end == Min2(t + lead, wd[k])
                 overlap_days == period_end - period_start
             IN  IF overlap_days > 0 THEN fc[k] * overlap_days * 100 ELSE 0]

\* units to make with int() in place of round()
calculate_units_to_make_truncating(weekly, total_inventory) ==
    LET total_needed == SeqSum(weekly)
        to_make == Max2(0, total_needed - 700 * total_inventory)
    IN  IntTrunc(to_make, 700)

\* calculate_units_to_make(weekly_units_needed, total_inventory)
calculate_units_to_make(weekly, total_inventory) ==
    LET total_needed == SeqSum(weekly)
        to_make == Max2(0, total_needed - 700 * total_inventory)
    IN  RoundHalfEven(to_make, 700)

\* [w * calibration for w in weekly_needed]
calibrated_needed(weekly, alg) ==
    [k \in 1..Len(weekly) |-> (weekly[k] * CALIBRATION_FACTORS[alg]) \div 100]

\* extended_P of the 18m+ algorithm: 0 outside today <= week_end <= today + 365
mask_18m_plus(fc, wd, t) ==
    [k \in 1..Len(fc) |-> IF t <= wd[k] /\ wd[k] <= t + 365 THEN fc[k] ELSE 0]

\* L_values of the 6-18m algorithm: the forecast of weeks ending after today
mask_6_18m(fc, wd, t) ==
    [k \in 1..Len(fc) |-> IF wd[k] > t THEN fc[k] ELSE 0]

\* _calc_production_numbers, column AC: NaN unless the row is future, has a
\* non-zero forecast and overlaps the window
v2_weekly_units_needed(fc, wd, t, s) ==
    LET window_end == t + s.amazon_doi_goal + s.inbound_lead_time + s.manufacture_lead_time
    IN  [k \in 1..Len(fc) |->
            IF ~(wd[k] >= t) THEN None
            ELSE IF fc[k] = 0 THEN None
            ELSE LET week_start == wd[k] - 7
                     period_end == Min2(window_end, wd[k])
                     period_start == Max2(t, week_start)
                     days_in_window == period_end - period_start
                 IN  IF days_in_window > 0 THEN Some(fc[k] * days_in_window * 100) ELSE None]

\* Series.sum(): NaN cells are skipped
RECURSIVE NanSum(_)
NanSum(l) ==
    IF l = <<>> THEN 0
    ELSE (IF IsNone(Head(l)) THEN 0 ELSE Val(Head(l))) + NanSum(Tail(l))

SomeAll(l) == [k \in 1..Len(l) |-> Some(l[k])]

\* week rows handed to the functions directly: weekly, from any first week-end
GivenWeeks(FV) ==
    \E pattern \in SeqsUpTo(FV, MaxPattern), off \in FirstOffsets, n \in WeekCounts :
        /\ week_dates = WeeklyDates(today + off, n)
        /\ forecasts = PatternForecasts(pattern, n)

\* week rows as the 0-6m and 6-18m algorithms generate them
GeneratedWeeks(FV) ==
    \E pattern \in SeqsUpTo(FV, MaxPattern) :
        /\ week_dates = SaturdayDates(today, lead_time_days_of(settings))
        /\ forecasts = PatternForecasts(pattern, Len(week_dates))

InitSizing ==
    /\ op = "none"
    /\ OthersIdle("sizing")
    /\ today \in Todays
    /\ settings \in SettingsInputs
    /\ GivenWeeks(ForecastValues) \/ GeneratedWeeks(ForecastValues)
    /\ SizingIdle

\* calculate_weekly_units_needed(forecasts, week_dates, today, lead_time_days)
CalculateWeeklyUnitsNeeded ==
    /\ op = "none"
    /\ final_forecast' = forecasts
    /\ weekly_units_needed' =
          SomeAll(calculate_weekly_units_needed(forecasts, week_dates, today,
                                                lead_time_days_of(settings)))
    /\ op' = "calculate_weekly_units_needed"
    /\ UNCHANGED <<outsideSizing, total_units_needed, units_to_make>>

\* calculate_units_to_make on the list calculate_weekly_units_needed returned
CalculateUnitsToMake ==
    /\ op = "calculate_weekly_units_needed"
    /\ LET weekly == [k \in 1..Len(weekly_units_needed) |-> Val(weekly_units_needed[k])]
       IN  /\ total_units_needed' = Some(SeqSum(weekly))
           /\ units_to_make' = Some(calculate_units_to_make(weekly, settings.total_inventory))
    /\ op' = "calculate_units_to_make"
    /\ UNCHANGED <<outsideSizing, final_forecast, weekly_units_needed>>

\* calculate_forecast_18m_plus from extended_P on: lead time, weekly units
\* needed, calibration, units to make, total_units_needed
CalculateForecast18mPlusSizing ==
    /\ op = "none"
    /\ LET extended_P == mask_18m_plus(forecasts, week_dates, today)
           weekly_needed == calculate_weekly_units_needed(extended_P, week_dates, today,
                                                          lead_time_days_of(settings))
           calibrated == calibrated_needed(weekly_needed, "18m+")
       IN  /\ final_forecast' = extended_P
           /\ weekly_units_needed' = SomeAll(weekly_needed)
           /\ units_to_make' = Some(calculate_units_to_make(calibrated, settings.total_inventory))
           /\ total_units_needed' = Some(SeqSum(calibrated))
    /\ op' = "calculate_forecast_18m_plus"
    /\ UNCHANGED outsideSizing

\* calculate_forecast_6_18m from L_values on; it returns sum(weekly_needed)
CalculateForecast6_18mSizing ==
    /\ op = "none"
    /\ week_dates = SaturdayDates(today, lead_time_days_of(settings))
    /\ LET L_values == mask_6_18m(forecasts, week_dates, today)
           weekly_needed == calculate_weekly_units_needed(L_values, week_dates, today,
                                                          lead_time_days_of(settings))
           calibrated == calibrated_needed(weekly_needed, "6-18m")
       IN  /\ final_forecast' = L_values
           /\ weekly_units_needed' = SomeAll(weekly_needed)
           /\ units_to_make' = Some(calculate_units_to_make(calibrated, settings.total_inventory))
           /\ total_units_needed' = Some(SeqSum(weekly_needed))
    /\ op' = "calculate_forecast_6_18m"
    /\ UNCHANGED outsideSizing

\* calculate_forecast_0_6m_exact from extended_forecasts on
CalculateForecast0_6mSizing ==
    /\ op = "none"
    /\ week_dates = SaturdayDates(today, lead_time_days_of(settings))
    /\ LET weekly_needed == calculate_weekly_units_needed(forecasts, week_dates, today,
                                                          lead_time_days_of(settings))
           calibrated == calibrated_needed(weekly_needed, "0-6m")
       IN  /\ final_forecast' = forecasts
           /\ weekly_units_needed' = SomeAll(weekly_needed)
           /\ units_to_make' = Some(calculate_units_to_make(calibrated, settings.total_inventory))
           /\ total_units_needed' = Some(SeqSum(calibrated))
    /\ op' = "calculate_forecast_0_6m_exact"
    /\ UNCHANGED outsideSizing

\* Forecast18MonthPlusV2._calc_production_numbers
CalcProductionNumbers ==
    /\ op = "none"
    /\ LET weekly == v2_weekly_units_needed(forecasts, week_dates, today, settings)
           unit_needed_total == NanSum(weekly)
       IN  /\ final_forecast' = forecasts
           /\ weekly_units_needed' = weekly
           /\ total_units_needed' = Some(unit_needed_total)
           /\ units_to_make' =
                 Some(Max2(0, RoundHalfEven(unit_needed_total - 700 * settings.total_inventory, 700)))
    /\ op' = "_calc_production_numbers"
    /\ UNCHANGED outsideSizing

NextSizing ==
    \/ CalculateWeeklyUnitsNeeded
    \/ CalculateUnitsToMake
    \/ CalculateForecast18mPlusSizing
    \/ CalculateForecast6_18mSizing
    \/ CalculateForecast0_6mSizing
    \/ CalcProductionNumbers

SpecSizing == InitSizing /\ [][NextSizing]_vars

\* the planning window [today, window_end]
WindowDays == lead_time_days_of(settings)
WindowEnd == today + WindowDays

\* max(0, min(today + lead_time_days, week_end) - max(today, week_end - 7))
OverlapDays(week_end) ==
    Max2(0, Min2(WindowEnd, week_end) - Max2(today, week_end - 7))

\* what week k contributed, a NaN cell contributing nothing
Contribution(k) == IF IsNone(weekly_units_needed[k]) THEN 0 ELSE Val(weekly_units_needed[k])

Weeks == 1..Len(week_dates)

(***************************************************************************)
(* C9: for every week with a non-zero forecast, calculate_weekly_units_    *)
(* needed (and _calc_production_numbers for the rows it visits) yields     *)
(* forecast * overlap_days / 7 with overlap_days = max(0, min(today +      *)
(* lead_time_days, week_end) - max(today, week_end - 7)); overlap_days is  *)
(* in 0..7, a week wholly before today or wholly after the window end      *)
(* contributes 0, and no week contributes more than its own forecast.      *)
(***************************************************************************)
C9_WeeklyOverlap ==
    op \in {"calculate_weekly_units_needed", "_calc_production_numbers"} =>
        /\ Len(weekly_units_needed) = Len(week_dates)
        /\ \A k \in Weeks :
              /\ final_forecast[k] # 0 =>
                    Contribution(k) = final_forecast[k] * OverlapDays(week_dates[k]) * 100
              /\ OverlapDays(week_dates[k]) \in 0..7
              /\ (week_dates[k] <= today \/ week_dates[k] - 7 >= WindowEnd) => Contribution(k) = 0
              /\ Contribution(k) <= final_forecast[k] * 700

\* a week that straddles today contributes the part after today
C9_Witness ==
    /\ op = "calculate_weekly_units_needed"
    /\ \E k \in Weeks :
          /\ final_forecast[k] = 2
          /\ week_dates[k] = today + 5
          /\ WindowDays = 9
          /\ Contribution(k) = 1000
    /\ \E k \in Weeks : week_dates[k] <= today /\ final_forecast[k] > 0 /\ Contribution(k) = 0

\* the weeks ending after today
FutureWeeks == {k \in Weeks : week_dates[k] > today}

\* contiguous 7-day weeks, the future ones covering [today, window_end]
CoversWindow ==
    /\ \A k \in Weeks \ {1} : week_dates[k] = week_dates[k - 1] + 7
    /\ \E k \in FutureWeeks : week_dates[k] - 7 <= today
    /\ \E k \in FutureWeeks : week_dates[k] >= WindowEnd

ConstantForecast(f) == \A k \in FutureWeeks : final_forecast[k] = f

RECURSIVE OverlapSum(_)
OverlapSum(K) ==
    IF K = {} THEN 0
    ELSE LET k == CHOOSE x \in K : TRUE
         IN  OverlapDays(week_dates[k]) + OverlapSum(K \ {k})

(***************************************************************************)
(* C10: when the future weeks are contiguous 7-day weeks covering the      *)
(* whole planning window and each has the same forecast f, the overlap     *)
(* days sum to amazon_doi_goal + inbound_lead_time + manufacture_lead_time,*)
(* total_units_needed = f * window_days / 7 and units_to_make = max(0,     *)
(* round(f * window_days / 7 - total_inventory)); with f = 50, inventory   *)
(* 500 and the default settings (window 130) units_to_make is 429.  It     *)
(* holds of calculate_weekly_units_needed with calculate_units_to_make and *)
(* of the algorithms that size with them uncalibrated.                     *)
(***************************************************************************)
C10_ConstantForecast ==
    (/\ op \in {"calculate_units_to_make", "calculate_forecast_18m_plus",
                "calculate_forecast_6_18m", "_calc_production_numbers"}
     /\ CoversWindow) =>
        \A f \in ForecastValues :
            ConstantForecast(f) =>
                /\ OverlapSum(FutureWeeks) = WindowDays
                /\ Val(total_units_needed) * 7 = f * WindowDays * 700
                /\ Val(units_to_make) =
                      Max2(0, RoundHalfEven(f * WindowDays * 100 - 700 * settings.total_inventory, 700))
                /\ (f = 50 /\ settings = [DEFAULT_SETTINGS EXCEPT !.total_inventory = 500]) =>
                      Val(units_to_make) = 429

\* 50 units a week, 500 in stock, the default 130-day window
C10_Witness ==
    /\ op = "calculate_units_to_make"
    /\ CoversWindow
    /\ ConstantForecast(50)
    /\ settings = [DEFAULT_SETTINGS EXCEPT !.total_inventory = 500]
    /\ WindowDays = 130
    /\ total_units_needed = Some(650000)
    /\ units_to_make = Some(429)

\* the sum over the weeks of forecast * overlap_days / 7, no other multiplier
RECURSIVE PlainSum(_)
PlainSum(K) ==
    IF K = {} THEN 0
    ELSE LET k == CHOOSE x \in K : TRUE
         IN  final_forecast[k] * OverlapDays(week_dates[k]) * 100 + PlainSum(K \ {k})

AlgorithmOps ==
    {"calculate_forecast_0_6m_exact", "calculate_forecast_6_18m", "calculate_forecast_18m_plus"}

DoiForecastValues == ForecastValues \cup {-1}

\* one simulated week: the inventory at its start and what remains at its end
DoiRow(k, start, remaining) == [week |-> k, start_of_week |-> start, remaining |-> remaining]

\* the days of the run-out week from the fraction as it comes, without the
\* max(0, min(1, ...)) around it
runout_days_unclamped(inventory_at_start, forecast) ==
    (inventory_at_start * 7) \div forecast

\* timedelta(days=fraction * 7) added to a date keeps the whole days, with
\* fraction = max(0, min(1, inventory_at_start / forecast))
runout_days(inventory_at_start, forecast) ==
    IF inventory_at_start <= 0 THEN 0
    ELSE IF inventory_at_start >= forecast THEN 7
    ELSE (inventory_at_start * 7) \div forecast

\* the loop of calculate_doi with the start of the week read after the week's
\* forecast was added
RECURSIVE doi_walk_late_start(_, _, _, _, _, _, _)
doi_walk_late_start(fc, wd, inventory, t, k, cumulative, trace) ==
    IF k > Min2(Len(fc), Len(wd)) THEN [trace |-> trace, runout_date |-> None]
    ELSE IF wd[k] < t THEN doi_walk_late_start(fc, wd, inventory, t, k + 1, cumulative, trace)
    ELSE IF fc[k] <= 0 THEN doi_walk_late_start(fc, wd, inventory, t, k + 1, cumulative, trace)
    ELSE LET week_start == wd[k] - 7
             cumulative2 == cumulative + fc[k]
             inventory_at_start == inventory - cumulative2
             inventory_remaining == inventory - cumulative2
             trace2 == Append(trace, DoiRow(k, inventory_at_start, inventory_remaining))
         IN  IF inventory_remaining <= 0
             THEN [trace |-> trace2,
                   runout_date |-> Some(week_start + runout_days(inventory_at_start, fc[k]))]
             ELSE doi_walk_late_start(fc, wd, inventory, t, k + 1, cumulative2, trace2)

\* the loop of calculate_doi from row k on: past weeks and non-positive
\* forecasts are skipped, the walk stops at the week the inventory runs out
RECURSIVE doi_walk(_, _, _, _, _, _, _)
doi_walk(fc, wd, inventory, t, k, cumulative, trace) ==
    IF k > Min2(Len(fc), Len(wd)) THEN [trace |-> trace, runout_date |-> None]
    ELSE IF wd[k] < t THEN doi_walk(fc, wd, inventory, t, k + 1, cumulative, trace)
    ELSE IF fc[k] <= 0 THEN doi_walk(fc, wd, inventory, t, k + 1, cumulative, trace)
    ELSE LET week_start == wd[k] - 7
             inventory_at_start == inventory - cumulative
             cumulative2 == cumulative + fc[k]
             inventory_remaining == inventory - cumulative2
             trace2 == Append(trace, DoiRow(k, inventory_at_start, inventory_remaining))
         IN  IF inventory_remaining <= 0
             THEN [trace |-> trace2,
                   runout_date |-> Some(week_start + runout_days(inventory_at_start, fc[k]))]
             ELSE doi_walk(fc, wd, inventory, t, k + 1, cumulative2, trace2)

PositiveForecasts(fc) == SelectSeq(fc, LAMBDA f : f > 0)

\* calculate_doi(forecasts, week_dates, inventory, today)
calculate_doi(fc, wd, inventory, t) ==
    IF fc = <<>> \/ wd = <<>>
    THEN [doi_days |-> 0, runout_date |-> None, trace |-> <<>>]
    ELSE LET walk == doi_walk(fc, wd, inventory, t, 1, 0, <<>>)
             positive == PositiveForecasts(fc)
             \* today + timedelta(weeks=inventory / avg_weekly), whole days kept
             runout_date == IF ~IsNone(walk.runout_date) THEN Val(walk.runout_date)
                            ELSE IF SeqSum(positive) > 0
                                 THEN t + ((7 * inventory * Len(positive)) \div SeqSum(positive))
                                 ELSE t + 365
         IN  [doi_days |-> Max2(0, runout_date - t), runout_date |-> Some(runout_date),
              trace |-> walk.trace]

\* the loop of _calc_inventory_tracking_exact over the rows with
\* week_end >= today: every row is tracked, the first run-out date is kept
RECURSIVE v2_tracking_walk(_, _, _, _, _, _, _, _)
v2_tracking_walk(fc, wd, initial_inventory, t, k, cumulative, trace, runout_date) ==
    IF k > Len(fc) THEN [trace |-> trace, runout_date |-> runout_date]
    ELSE IF ~(wd[k] >= t)
         THEN v2_tracking_walk(fc, wd, initial_inventory, t, k + 1, cumulative, trace, runout_date)
    ELSE LET cumulative2 == cumulative + fc[k]
             remaining == initial_inventory - cumulative2
             start_of_week == remaining + fc[k]
             trace2 == Append(trace, DoiRow(k, start_of_week, remaining))
             runs_out == remaining <= 0 /\ start_of_week > 0 /\ fc[k] > 0
             runout == wd[k] - 7 + ((start_of_week * 7) \div fc[k])
         IN  v2_tracking_walk(fc, wd, initial_inventory, t, k + 1, cumulative2, trace2,
                              IF runs_out /\ IsNone(runout_date) THEN Some(runout)
                              ELSE runout_date)

\* Forecast18MonthPlusV2._calc_inventory_tracking_exact
calc_inventory_tracking_exact(fc, wd, initial_inventory, t) ==
    IF \A k \in 1..Len(fc) : ~(wd[k] >= t)
    THEN [doi_days |-> 0, runout_date |-> None, trace |-> <<>>]
    ELSE LET walk == v2_tracking_walk(fc, wd, initial_inventory, t, 1, 0, <<>>, None)
         IN  [doi_days |-> IF IsNone(walk.runout_date) THEN 365
                           ELSE Max2(0, Val(walk.runout_date) - t),
              runout_date |-> walk.runout_date,
              trace |-> walk.trace]

\* settings.get('total_inventory', 0): whatever the caller stored, a
\* negative figure included
DoiSettingsInputs == SettingsInputs \cup {SettingsOf(2, 1, 0, -1)}

InitDoi ==
    /\ op = "none"
    /\ OthersIdle("doi")
    /\ today \in Todays
    /\ settings \in DoiSettingsInputs
    /\ GivenWeeks(DoiForecastValues)
    /\ DoiIdle

\* calculate_doi(forecasts, week_dates, total_inventory, today)
CalculateDoi ==
    /\ op = "none"
    /\ LET r == calculate_doi(forecasts, week_dates, settings.total_inventory, today)
       IN  /\ doi_trace' = r.trace
           /\ doi_days' = Some(r.doi_days)
           /\ doi_runout_date' = r.runout_date
    /\ op' = "calculate_doi"
    /\ UNCHANGED outsideDoi

\* Forecast18MonthPlusV2._calc_inventory_tracking_exact(df, total_inventory, 'total')
CalcInventoryTrackingExact ==
    /\ op = "none"
    /\ LET r == calc_inventory_tracking_exact(forecasts, week_dates, settings.total_inventory, today)
       IN  /\ doi_trace' = r.trace
           /\ doi_days' = Some(r.doi_days)
           /\ doi_runout_date' = r.runout_date
    /\ op' = "_calc_inventory_tracking_exact"
    /\ UNCHANGED outsideDoi

\* calculate_forecast_18m_plus: doi_total = calculate_doi(extended_P, extended_dates, ...)
CalculateForecast18mPlusDoi ==
    /\ op = "none"
    /\ LET r == calculate_doi(forecasts, week_dates, settings.total_inventory, today)
       IN  /\ doi_trace' = r.trace
           /\ doi_days' = Some(r.doi_days)
           /\ doi_runout_date' = r.runout_date
    /\ op' = "calculate_forecast_18m_plus.doi_total"
    /\ UNCHANGED outsideDoi

\* calculate_forecast_6_18m: doi_total = calculate_doi(L_values, extended_dates, ...)
CalculateForecast6_18mDoi ==
    /\ op = "none"
    /\ LET r == calculate_doi(forecasts, week_dates, settings.total_inventory, today)
       IN  /\ doi_trace' = r.trace
           /\ doi_days' = Some(r.doi_days)
           /\ doi_runout_date' = r.runout_date
    /\ op' = "calculate_forecast_6_18m.doi_total"
    /\ UNCHANGED outsideDoi

\* calculate_forecast_0_6m_exact: doi_total = calculate_doi(extended_forecasts, ...)
CalculateForecast0_6mDoi ==
    /\ op = "none"
    /\ LET r == calculate_doi(forecasts, week_dates, settings.total_inventory, today)
       IN  /\ doi_trace' = r.trace
           /\ doi_days' = Some(r.doi_days)
           /\ doi_runout_date' = r.runout_date
    /\ op' = "calculate_forecast_0_6m_exact.doi_total"
    /\ UNCHANGED outsideDoi

NextDoi ==
    \/ CalculateDoi
    \/ CalcInventoryTrackingExact
    \/ CalculateForecast18mPlusDoi
    \/ CalculateForecast6_18mDoi
    \/ CalculateForecast0_6mDoi

SpecDoi == InitDoi /\ [][NextDoi]_vars

(***************************************************************************)
(* C8: in calculate_doi and _calc_inventory_tracking_exact the inventory   *)
(* at the start of a simulated week equals the remaining inventory at the  *)
(* end of the previous simulated week (the given inventory for the first), *)
(* and, the forecasts being non-negative, the remaining inventory after a  *)
(* week is never greater than after the week before.                       *)
(***************************************************************************)
C8_MonotonicDrawdown ==
    op \in {"calculate_doi", "_calc_inventory_tracking_exact"} =>
        /\ doi_trace # <<>> => doi_trace[1].start_of_week = settings.total_inventory
        /\ \A i \in 1..(Len(doi_trace) - 1) :
              /\ doi_trace[i + 1].start_of_week = doi_trace[i].remaining
              /\ doi_trace[i].week < doi_trace[i + 1].week
        /\ (\A k \in 1..Len(forecasts) : forecasts[k] >= 0) =>
              /\ \A i \in 1..(Len(doi_trace) - 1) :
                    doi_trace[i + 1].remaining <= doi_trace[i].remaining
              /\ \A i \in 1..Len(doi_trace) :
                    doi_trace[i].remaining <= doi_trace[i].start_of_week

\* 20 units drawn down by 2 a week: several weeks simulated before the run-out
C8_Witness ==
    /\ op = "calculate_doi"
    /\ settings.total_inventory = 20
    /\ \A k \in 1..Len(forecasts) : forecasts[k] = 2
    /\ Len(doi_trace) = 10
    /\ doi_trace[2].start_of_week = 18
    /\ doi_trace[2].remaining = 16
    /\ doi_trace[10].remaining = 0

(***************************************************************************)
(* History-length guards of the forecasting entry points.  A result is the *)
(* shape of what the entry point returned: its error text ("" when it      *)
(* carries none) and, for units_to_make and the DOI figures, whether the   *)
(* key is absent, a literal zero of an early return, or computed.          *)
(***************************************************************************)
MaxHistory == 6

\* the guard with the boundary one row lower
insufficient_history_below_three(n) == n < 3

\* len(sales_history) < 4 / len(units_data) < 4
insufficient_history(n) == n < 4

\* ForecastService.run_forecast
run_forecast(exists, n) ==
    IF ~exists THEN Result("Product not found", "absent", "absent")
    ELSE IF insufficient_history(n) THEN Result("Insufficient sales history", "absent", "absent")
    ELSE Result("", "computed", "computed")

\* ForecastService.run_forecast_tps
run_forecast_tps(exists, n) ==
    IF ~exists THEN Result("Product not found", "absent", "absent")
    ELSE IF insufficient_history(n) THEN Result("Insufficient sales history", "absent", "absent")
    ELSE Result("", "computed", "computed")

\* calculate_forecast_18m_plus: only an empty units_data returns early
calculate_forecast_18m_plus(n) ==
    IF n = 0 THEN Result("", "zero", "zero") ELSE Result("", "computed", "computed")

\* calculate_forecast_6_18m: returns early only when units_data, the search
\* volume and the seasonality table are all empty
calculate_forecast_6_18m(n, seasonality) ==
    IF n = 0 /\ ~seasonality THEN Result("", "zero", "zero") ELSE Result("", "computed", "computed")

\* calculate_forecast_0_6m_exact: no early return
calculate_forecast_0_6m_exact(n, seasonality) == Result("", "computed", "computed")

\* generate_full_forecast: runs the three algorithms and reads runout_date_total
\* and lead_time_days of their results, keys the early returns do not carry
generate_full_forecast(n, seasonality, alg) ==
    LET result_18m == calculate_forecast_18m_plus(n)
        result_6_18m == calculate_forecast_6_18m(n, seasonality)
        result_0_6m == calculate_forecast_0_6m_exact(n, seasonality)
        picked == IF alg = "0-6m" THEN result_0_6m
                  ELSE IF alg = "6-18m" THEN result_6_18m
                  ELSE result_18m
    IN  IF result_18m.units_to_make = "zero" \/ result_6_18m.units_to_make = "zero"
        THEN Result("KeyError", "absent", "absent")
        ELSE picked

\* get_forecast_data: 404 without the product or without a week of positive
\* sales, otherwise the algorithm of the age band runs on whatever rows exist
get_forecast_data(exists, n, positive, seasonality, alg) ==
    IF ~exists THEN Result("Product not found", "absent", "absent")
    ELSE IF positive = 0 THEN Result("No sales history for product", "absent", "absent")
    ELSE IF alg = "18m+" THEN calculate_forecast_18m_plus(n)
    ELSE IF alg = "6-18m" THEN calculate_forecast_6_18m(n, seasonality)
    ELSE calculate_forecast_0_6m_exact(n, seasonality)

InitHistory ==
    /\ op = "none"
    /\ OthersIdle("history")
    /\ product_exists \in BOOLEAN
    /\ sales_rows \in 0..MaxHistory
    /\ positive_rows \in 0..sales_rows
    /\ has_seasonality \in BOOLEAN
    /\ primary \in {"0-6m", "6-18m", "18m+"}
    /\ result = NoResult

RunForecast ==
    /\ op = "none"
    /\ result' = run_forecast(product_exists, sales_rows)
    /\ op' = "run_forecast"
    /\ UNCHANGED <<outsideHist, histInputs>>

RunForecastTps ==
    /\ op = "none"
    /\ result' = run_forecast_tps(product_exists, sales_rows)
    /\ op' = "run_forecast_tps"
    /\ UNCHANGED <<outsideHist, histInputs>>

CalculateForecast18mPlus ==
    /\ op = "none"
    /\ result' = calculate_forecast_18m_plus(sales_rows)
    /\ op' = "calculate_forecast_18m_plus"
    /\ UNCHANGED <<outsideHist, histInputs>>

CalculateForecast6_18m ==
    /\ op = "none"
    /\ result' = calculate_forecast_6_18m(sales_rows, has_seasonality)
    /\ op' = "calculate_forecast_6_18m"
    /\ UNCHANGED <<outsideHist, histInputs>>

CalculateForecast0_6mExact ==
    /\ op = "none"
    /\ result' = calculate_forecast_0_6m_exact(sales_rows, has_seasonality)
    /\ op' = "calculate_forecast_0_6m_exact"
    /\ UNCHANGED <<outsideHist, histInputs>>

GenerateFullForecast ==
    /\ op = "none"
    /\ result' = generate_full_forecast(sales_rows, has_seasonality, primary)
    /\ op' = "generate_full_forecast"
    /\ UNCHANGED <<outsideHist, histInputs>>

GetForecastData ==
    /\ op = "none"
    /\ result' = get_forecast_data(product_exists, sales_rows, positive_rows,
                                   has_seasonality, primary)
    /\ op' = "get_forecast_data"
    /\ UNCHANGED <<outsideHist, histInputs>>

NextHistory ==
    \/ RunForecast
    \/ RunForecastTps
    \/ CalculateForecast18mPlus
    \/ CalculateForecast6_18m
    \/ CalculateForecast0_6mExact
    \/ GenerateFullForecast
    \/ GetForecastData

SpecHistory == InitHistory /\ [][NextHistory]_vars

(***************************************************************************)
(* C2: for an existing product, run_forecast and run_forecast_tps return   *)
(* the 'Insufficient sales history' error, carrying no forecast numbers,   *)
(* whenever the product has 3 or fewer weekly sales rows, and run the      *)
(* forecast algorithm whenever it has 4 or more.                           *)
(***************************************************************************)
C2_HistoryBoundary ==
    (op \in {"run_forecast", "run_forecast_tps"} /\ product_exists) =>
        /\ sales_rows <= 3 =>
              /\ result.error = "Insufficient sales history"
              /\ result.units_to_make = "absent"
              /\ result.doi_total_days = "absent"
        /\ sales_rows >= 4 =>
              /\ result.error = ""
              /\ result.units_to_make = "computed"
              /\ result.doi_total_days = "computed"

\* exactly three rows: the error, no numbers
C2_Witness ==
    /\ op = "run_forecast_tps"
    /\ product_exists
    /\ sales_rows = 3
    /\ result = Result("Insufficient sales history", "absent", "absent")

(***************************************************************************)
(* C3 as stated: calculate_forecast_18m_plus, calculate_forecast_6_18m,    *)
(* calculate_forecast_0_6m_exact, generate_full_forecast and               *)
(* get_forecast_data never produce units_to_make / DOI values for 0..3     *)
(* weekly rows: they return an explicit insufficient-history result.       *)
(***************************************************************************)
C3_CoreGuards ==
    (/\ op \in {"calculate_forecast_18m_plus", "calculate_forecast_6_18m",
                "calculate_forecast_0_6m_exact", "generate_full_forecast",
                "get_forecast_data"}
     /\ (op = "get_forecast_data" => product_exists)
     /\ sales_rows <= 3) =>
        /\ result.error \in {"Insufficient sales history", "No sales history for product"}
        /\ result.units_to_make = "absent"
        /\ result.doi_total_days = "absent"

(***************************************************************************)
(* The run-out point of the DOI simulation                                 *)
(***************************************************************************)
\* the rows of the forecast that end today or later
FutureRows == {k \in 1..Len(week_dates) : week_dates[k] >= today}

RECURSIVE ForecastUpTo(_)
ForecastUpTo(k) ==
    IF k = 0 THEN 0
    ELSE (IF k \in FutureRows THEN forecasts[k] ELSE 0) + ForecastUpTo(k - 1)

\* starting inventory minus the cumulative forecast of the future weeks up to k
RemainingAfter(k) == settings.total_inventory - ForecastUpTo(k)

\* the future weeks at whose end nothing is left, the week selling something
RunoutWeeks == {k \in FutureRows : RemainingAfter(k) <= 0 /\ forecasts[k] > 0}

FirstOf(K) == CHOOSE k \in K : \A j \in K : k <= j

\* week_start + (inventory_at_start / forecast) * 7 days, whole days kept
RunoutPoint(k) ==
    week_dates[k] - 7 + (((RemainingAfter(k) + forecasts[k]) * 7) \div forecasts[k])

NonNegativeForecasts == \A k \in 1..Len(forecasts) : forecasts[k] >= 0

(***************************************************************************)
(* C11 as stated: for every starting inventory >= 0 and every forecast     *)
(* series, calculate_doi and _calc_inventory_tracking_exact put the        *)
(* run-out at the first future week whose remaining inventory is <= 0, at  *)
(* week_start + (inventory_at_start / forecast) * 7 days, and return DOI = *)
(* max(0, whole days from today to that date); with zero inventory and a   *)
(* positive forecast in the week under way the DOI is 0.                   *)
(***************************************************************************)
C11_RunoutPoint ==
    (/\ op \in {"calculate_doi", "_calc_inventory_tracking_exact"}
     /\ settings.total_inventory >= 0
     /\ NonNegativeForecasts
     /\ RunoutWeeks # {}) =>
        LET k == FirstOf(RunoutWeeks)
        IN  /\ doi_runout_date = Some(RunoutPoint(k))
            /\ doi_days = Some(Max2(0, RunoutPoint(k) - today))
            /\ (settings.total_inventory = 0 /\ k = FirstOf(FutureRows)
                /\ week_dates[k] - 7 <= today) => doi_days = Some(0)

\* the same statement of calculate_doi alone
C11_RunoutPointTps ==
    op = "calculate_doi" => C11_RunoutPoint

(***************************************************************************)
(* The run-out fraction on the three algorithm paths and in the v2 class   *)
(***************************************************************************)
SeasonalDoiOps ==
    {"calculate_forecast_6_18m.doi_total", "calculate_forecast_0_6m_exact.doi_total"}

TpsDoiOps ==
    SeasonalDoiOps \cup {"calculate_doi", "calculate_forecast_18m_plus.doi_total"}

LongHistoryDoiOps ==
    {"calculate_forecast_18m_plus.doi_total", "_calc_inventory_tracking_exact"}

\* the rows of the trace at which a run-out was recorded
RunoutRows ==
    {i \in 1..Len(doi_trace) :
        /\ doi_trace[i].remaining <= 0
        /\ op = "_calc_inventory_tracking_exact" =>
              doi_trace[i].start_of_week > 0 /\ forecasts[doi_trace[i].week] > 0}

RunoutRow == doi_trace[FirstOf(RunoutRows)]

WithinRunoutWeek ==
    /\ doi_runout_date # None
    /\ week_dates[RunoutRow.week] - 7 <= Val(doi_runout_date)
    /\ Val(doi_runout_date) <= week_dates[RunoutRow.week]

UnclampedRunout ==
    doi_runout_date =
        Some(week_dates[RunoutRow.week] - 7
             + ((RunoutRow.start_of_week * 7) \div forecasts[RunoutRow.week]))

NeverRunsOut ==
    /\ FutureRows # {}
    /\ \A k \in FutureRows : RemainingAfter(k) > 0

\* the last week_end of the forecast
HorizonEnd == CHOOSE d \in {week_dates[k] : k \in FutureRows} :
                  \A k \in FutureRows : week_dates[k] <= d

(***************************************************************************)
(* C13 as stated: when the starting inventory exceeds the cumulative       *)
(* forecast of every future week, the DOI returned by the main algorithm   *)
(* paths (calculate_doi in the three algorithms, and                       *)
(* _calc_inventory_tracking_exact) is the number of days from today to the *)
(* end of the forecast horizon, not an inventory / average-weekly-forecast *)
(* estimate.                                                               *)
(***************************************************************************)
C13_HorizonEnd ==
    (/\ op \in TpsDoiOps \cup LongHistoryDoiOps
     /\ NonNegativeForecasts
     /\ NeverRunsOut) =>
        doi_days = Some(HorizonEnd - today)

(***************************************************************************)
(* Per-product seasonality.  The search-volume rows of a product are a     *)
(* choice of volume, or no row, for each of a few candidate week dates;    *)
(* the smoothing chain is computed over the 54 positions of the code with  *)
(* exact fractions: D in halves, E in twelfths, F in 1/36, G in 1/216 and  *)
(* H in 1/432.  The index is in hundredths.                                *)
(***************************************************************************)
MaxVolume == 2

\* the candidate rows: ISO week and year of their week_date
SvDates ==
    << [week |-> 1, year |-> 2], [week |-> 2, year |-> 1], [week |-> 2, year |-> 2],
       [week |-> 52, year |-> 1], [week |-> 53, year |-> 1] >>

SvVolumes == -1..MaxVolume

SvInputs == [1..Len(SvDates) -> {None} \cup {Some(v) : v \in SvVolumes}]

\* the rows present in product_sv
SvRows(product_sv) == {i \in 1..Len(product_sv) : product_sv[i] # None}

\* sv_by_week: the keys, and the row kept for a week (the most recent one)
SvWeeks(product_sv) == {SvDates[i].week : i \in SvRows(product_sv)}

sv_by_week(product_sv, w) ==
    CHOOSE i \in SvRows(product_sv) :
        /\ SvDates[i].week = w
        /\ \A j \in SvRows(product_sv) :
              SvDates[j].week = w => SvDates[j].year <= SvDates[i].year

\* B: search_volume of weeks 1..52, weeks 53 and 54 are 0
sv_column_B(product_sv) ==
    Column([w \in 1..54 |->
        IF w \in SvWeeks(product_sv) /\ w <= 52
        THEN Val(product_sv[sv_by_week(product_sv, w)]) ELSE 0])

\* C: max of rows i-2..i
sv_column_C(B) ==
    Column([i \in 1..54 |-> SetMax({B[j] : j \in Max2(1, i - 2)..i})])

\* D = (C[i] + C[i+1]) / 2, 0 in the last row; in halves
sv_column_D(C) == Column([i \in 1..54 |-> IF i < 54 THEN C[i] + C[i + 1] ELSE 0])

\* the 3-row centred average of a column X (two rows at either end); the
\* result in 1/6 of the unit of X
centred_average(X) ==
    Column([i \in 1..54 |->
        IF i = 1 THEN 3 * (X[1] + X[2])
        ELSE IF i >= 54 THEN 3 * (X[i - 1] + X[i])
        ELSE 2 * (X[i - 1] + X[i] + X[i + 1])])

\* F = AVERAGE(B, D, E), in 1/36
sv_column_F(B, D, E) == Column([i \in 1..54 |-> 12 * B[i] + 6 * D[i] + E[i]])

\* H = (G[i] + G[i+1]) / 2, 0 in the last row; in 1/432
sv_column_H(G) == Column([i \in 1..54 |-> IF i < 54 THEN G[i] + G[i + 1] ELSE 0])

smoothing_chain(product_sv) ==
    LET B == sv_column_B(product_sv)
        C == sv_column_C(B)
        D == sv_column_D(C)
        E == centred_average(D)
        F == sv_column_F(B, D, E)
        G == centred_average(F)
    IN  [B |-> B, H |-> sv_column_H(G)]

\* the maximum taken over H[:51], one week short
max_H_of_51_weeks(H) ==
    LET m == SetMax({H[i] : i \in 1..51})
    IN  IF m <= 0 THEN 432 ELSE m

\* max_H = max(H[:52]), replaced by 1 when it is not positive
max_H_of(H) ==
    LET m == SetMax({H[i] : i \in 1..52})
    IN  IF m <= 0 THEN 432 ELSE m

\* round(H / max_H, 2), in hundredths (ties go to the even hundredth)
seasonality_index_of(H) ==
    Column([w \in 1..52 |-> RoundHalfEven(100 * H[w], max_H_of(H))])

\* len(sv_by_week) >= 3
enough_weeks(product_sv) == Cardinality(SvWeeks(product_sv)) >= 3

\* calculate_per_product_seasonality: {} (here <<>>) without rows or with
\* fewer than 3 distinct weeks
calculate_per_product_seasonality(product_sv) ==
    IF SvRows(product_sv) = {} THEN <<>>
    ELSE IF ~enough_weeks(product_sv) THEN <<>>
    ELSE seasonality_index_of(smoothing_chain(product_sv).H)

\* the global table: seasonality_index of the rows week_of_year = 1, 2, ...,
\* in thousandths; [] is <<>>
FlatTable == [w \in 1..52 |-> 1000] \o <<>>
RampTable == [w \in 1..52 |-> IF w <= 26 THEN 504 ELSE 1000] \o <<>>
ShortTable == [w \in 1..51 |-> 1000] \o <<>>
DippingTable == [w \in 1..52 |-> IF w = 26 THEN 0 ELSE IF w = 50 THEN -96 ELSE 1000] \o <<>>
GlobalTables == {<<>>, FlatTable, RampTable, ShortTable, DippingTable}

\* the rows every one of which carries the volume 1
PresenceInputs == {sv \in SvInputs : \A i \in SvRows(sv) : sv[i] = Some(1)}

\* units_data: the ISO week of week_end and the adjusted units of every row,
\* all of them before today
HistoryInputs ==
    { <<>>,
      <<[week |-> 25, units |-> 0], [week |-> 26, units |-> 3]>>,
      <<[week |-> 1, units |-> 2], [week |-> 2, units |-> 1]>>,
      <<[week |-> 52, units |-> 0]>> }

\* today.isocalendar()[1]
TodayWeek == 44

\* the week numbers the weekly loop of a forecast goes through: more than a
\* year of Saturdays
FutureWeeksOfYear == 1..52

\* dict.get(w, default) of a lookup held as a sequence over the weeks
LookupGet(lookup, w, default) ==
    IF w \in 1..Len(lookup) THEN lookup[w] ELSE default

\* seasonality_idx_lookup[week_num] = round(float(seasonality_idx), 2)
global_seasonality_lookup(table) ==
    Column([w \in 1..Len(table) |-> RoundHalfEven(table[w], 10)])

\* the 0-6m selection with the fallback left out
seasonality_0_6m_no_fallback(product_sv, table) ==
    LET own == IF SvRows(product_sv) # {}
               THEN calculate_per_product_seasonality(product_sv) ELSE <<>>
    IN  [lookup |-> own, has_sv_data |-> own # <<>>]

\* calculate_forecast_0_6m_exact: the per-product index first, then the
\* global table
seasonality_0_6m(product_sv, table) ==
    LET own == IF SvRows(product_sv) # {}
               THEN calculate_per_product_seasonality(product_sv) ELSE <<>>
    IN  IF own # <<>> THEN [lookup |-> own, has_sv_data |-> TRUE]
        ELSE IF table # <<>>
             THEN [lookup |-> global_seasonality_lookup(table),
                   has_sv_data |-> global_seasonality_lookup(table) # <<>>]
             ELSE [lookup |-> <<>>, has_sv_data |-> FALSE]

\* peak_units = max(adj_units_list), 0 without historical rows
peak_units_of(history) ==
    IF history = <<>> THEN 0 ELSE SetMax({history[k].units : k \in 1..Len(history)})

\* idx_now with the guard against a non-positive index left out
idx_now_unguarded(lookup, history) ==
    IF history # <<>> THEN LookupGet(lookup, history[Len(history)].week, 15)
    ELSE LookupGet(lookup, TodayWeek, 15)

\* idx_now: the index of the most recent historical week (of today's week
\* without history), 0.15 when the lookup has none or it is not positive
idx_now_of(lookup, history) ==
    LET found == IF history # <<>>
                 THEN LookupGet(lookup, history[Len(history)].week, 15)
                 ELSE LookupGet(lookup, TodayWeek, 15)
    IN  IF found <= 0 THEN 15 ELSE found

\* the weekly loop of the 0-6m forecast: pow(ratio, 0.65) of a negative ratio
\* is a complex number, and max(0, <complex>) raises TypeError
forecast_0_6m_error(lookup, history) ==
    IF /\ idx_now_of(lookup, history) > 0
       /\ peak_units_of(history) > 0
       /\ \E w \in FutureWeeksOfYear : LookupGet(lookup, w, 50) < 0
    THEN "TypeError" ELSE ""

\* calculate_forecast_6_18m: the lookups are built from the product's own
\* search volume only
seasonality_6_18m(product_sv, table) ==
    IF SvRows(product_sv) # {} /\ enough_weeks(product_sv)
    THEN [lookup |-> seasonality_index_of(smoothing_chain(product_sv).H),
          chain |-> smoothing_chain(product_sv), has_sv_data |-> TRUE]
    ELSE [lookup |-> <<>>, chain |-> <<>>, has_sv_data |-> FALSE]

\* sv_smooth_env_97_lookup.get(week_of_year, 0), as H in 1/432 (the factor
\* 0.97 is left to the values that are divided by it)
sv_smooth_env_of(chain, w) ==
    IF chain # <<>> /\ w \in 1..52 THEN chain.H[w] ELSE 0

\* G = adj_units / sv_smooth_env_97 without the test of the divisor
conversion_unguarded(chain, history) ==
    Column([k \in 1..Len(history) |->
        Frac(history[k].units * 432, sv_smooth_env_of(chain, history[k].week))])

\* G_values: adj_units / sv_smooth_env_97 where the seasonal volume is
\* positive, 0 elsewhere; held times 0.97
conversion_of(chain, history) ==
    Column([k \in 1..Len(history) |->
        IF sv_smooth_env_of(chain, history[k].week) > 0
        THEN Frac(history[k].units * 432, sv_smooth_env_of(chain, history[k].week))
        ELSE Frac(0, 1)])

FracAdd(p, q) == Frac(p.num * q.den + q.num * p.den, p.den * q.den)

RECURSIVE FracSum(_)
FracSum(l) == IF l = <<>> THEN Frac(0, 1) ELSE FracAdd(Head(l), FracSum(Tail(l)))

\* the default average peak conversion 0.0012, times 0.97
DefaultPeakCvr == Frac(1164, 1000000)

\* H_avg_peak_cvr: the average of the window of 5 around the first greatest
\* G, or the default when no G is positive
avg_peak_cvr_of(G) ==
    IF G # <<>> /\ \E k \in 1..Len(G) : G[k].num > 0
    THEN LET max_idx == CHOOSE k \in 1..Len(G) :
                            /\ \A j \in 1..Len(G) : FracLe(G[j], G[k])
                            /\ \A j \in 1..(k - 1) : ~FracLe(G[k], G[j])
             start_idx == Max2(1, max_idx - 2)
             end_idx == Min2(Len(G), max_idx + 2)
             window == SubSeq(G, start_idx, end_idx)
             total == FracSum(window)
         IN  Frac(total.num, total.den * Len(window))
    ELSE DefaultPeakCvr

\* safe_get: the value at 0-based index i, 0 when out of range, None or not
\* positive
safe_get(vals, i) ==
    IF 0 <= i /\ i < Len(vals) /\ vals[i + 1] # None /\ Val(vals[i + 1]) > 0
    THEN Val(vals[i + 1]) ELSE 0

RECURSIVE safe_sum_range(_, _, _)
safe_sum_range(vals, start, end) ==
    IF start > end THEN 0
    ELSE safe_get(vals, start) + safe_sum_range(vals, start + 1, end)

\* 0.25 * (1 week / 7 + 2 weeks / 14 + 4 weeks / 28 + 6 weeks / 42), in 1/336
weighted_daily_average(vals, idx) ==
    12 * safe_get(vals, idx) + 6 * safe_sum_range(vals, idx - 1, idx)
    + 3 * safe_sum_range(vals, idx - 3, idx) + 2 * safe_sum_range(vals, idx - 5, idx)

\* velocity = current_avg / prior_avg - 1 whatever the prior average
velocity_unguarded(I, L, idx) ==
    Frac(weighted_daily_average(I, idx) - weighted_daily_average(L, idx),
         weighted_daily_average(L, idx))

\* velocity = current_avg / prior_avg - 1, 0.0 unless prior_avg > 0
velocity_of(I, L, idx) ==
    IF weighted_daily_average(L, idx) > 0
    THEN Frac(weighted_daily_average(I, idx) - weighted_daily_average(L, idx),
              weighted_daily_average(L, idx))
    ELSE Frac(0, 1)

\* calculate_column_n_velocity: None for the rows that end today or later
calculate_column_n_velocity(I, L, historical) ==
    Column([k \in 1..Len(I) |->
        IF k > historical THEN None ELSE Some(velocity_of(I, L, k - 1))])

\* columns I and L: a few short series with None, 0 and a negative value
SmoothValues == {None, Some(-1), Some(0), Some(2)}
VelocityInputs ==
    {[I |-> I, L |-> L, historical |-> h] :
        I \in {<<Some(2), Some(2)>>, <<Some(0), Some(2), Some(2)>>},
        L \in SeqsUpTo(SmoothValues, 2), h \in {1, 2}}

InitSeason ==
    /\ op = "none"
    /\ OthersIdle("season")
    /\ \/ /\ product_search_volume \in SvInputs
          /\ seasonality_data = <<>>
          /\ units_history = <<>>
          /\ units_final_smooth_85 = <<>> /\ prior_year_final_smooth = <<>>
          /\ historical_rows = 0
       \/ /\ product_search_volume \in PresenceInputs
          /\ seasonality_data \in GlobalTables
          /\ units_history \in HistoryInputs
          /\ units_final_smooth_85 = <<>> /\ prior_year_final_smooth = <<>>
          /\ historical_rows = 0
       \/ /\ product_search_volume = [i \in 1..Len(SvDates) |-> None]
          /\ seasonality_data = <<>>
          /\ units_history = <<>>
          /\ \E v \in VelocityInputs :
                /\ units_final_smooth_85 = v.I
                /\ prior_year_final_smooth = v.L
                /\ historical_rows = v.historical
    /\ sv_chain = <<>>
    /\ seasonality_idx_lookup = <<>>
    /\ has_sv_data = FALSE
    /\ needs_seasonality = None
    /\ idx_now = None
    /\ forecast_error = ""
    /\ conversion = <<>>
    /\ peak_conversion = None
    /\ N_values = <<>>

\* calculate_per_product_seasonality(product_sv)
CalculatePerProductSeasonality ==
    /\ op = "none"
    /\ seasonality_idx_lookup' = calculate_per_product_seasonality(product_search_volume)
    /\ sv_chain' = IF SvRows(product_search_volume) # {} /\ enough_weeks(product_search_volume)
                   THEN smoothing_chain(product_search_volume) ELSE <<>>
    /\ op' = "calculate_per_product_seasonality"
    /\ UNCHANGED <<seasonInputs, ratioInputs, has_sv_data, needs_seasonality, idx_now,
                   forecast_error, conversion, peak_conversion, N_values>>
    /\ UNCHANGED outsideSeason

\* calculate_forecast_0_6m_exact: its choice of seasonality, idx_now, the
\* weekly loop, and the flag of the result if the loop got through
CalculateForecast0_6mSeasonality ==
    /\ op = "none"
    /\ LET r == seasonality_0_6m(product_search_volume, seasonality_data)
           error == forecast_0_6m_error(r.lookup, units_history)
       IN  /\ seasonality_idx_lookup' = r.lookup
           /\ has_sv_data' = r.has_sv_data
           /\ idx_now' = Some(idx_now_of(r.lookup, units_history))
           /\ forecast_error' = error
           /\ needs_seasonality' = IF error = "" THEN Some(~r.has_sv_data) ELSE None
    /\ op' = "calculate_forecast_0_6m_exact"
    /\ UNCHANGED <<seasonInputs, ratioInputs, sv_chain, conversion, peak_conversion,
                   N_values>>
    /\ UNCHANGED outsideSeason

\* calculate_forecast_6_18m: its lookups, G and the average peak conversion,
\* and the flag of its result; with no units, no search volume and no table
\* it returns at once
CalculateForecast6_18mSeasonality ==
    /\ op = "none"
    /\ IF units_history = <<>> /\ SvRows(product_search_volume) = {} /\ seasonality_data = <<>>
       THEN /\ needs_seasonality' = Some(TRUE)
            /\ UNCHANGED <<seasonality_idx_lookup, sv_chain, has_sv_data, conversion,
                           peak_conversion>>
       ELSE LET r == seasonality_6_18m(product_search_volume, seasonality_data)
                G == conversion_of(r.chain, units_history)
            IN  /\ seasonality_idx_lookup' = r.lookup
                /\ sv_chain' = r.chain
                /\ has_sv_data' = r.has_sv_data
                /\ conversion' = G
                /\ peak_conversion' = Some(avg_peak_cvr_of(G))
                /\ needs_seasonality' = Some(~r.has_sv_data)
    /\ op' = "calculate_forecast_6_18m"
    /\ UNCHANGED <<seasonInputs, ratioInputs, idx_now, forecast_error, N_values>>
    /\ UNCHANGED outsideSeason

\* calculate_column_n_velocity(units_final_smooth_85, prior_year_final_smooth,
\* week_dates, today)
CalculateColumnNVelocity ==
    /\ op = "none"
    /\ N_values' = calculate_column_n_velocity(units_final_smooth_85,
                                               prior_year_final_smooth, historical_rows)
    /\ op' = "calculate_column_n_velocity"
    /\ UNCHANGED <<seasonInputs, ratioInputs, sv_chain, seasonality_idx_lookup,
                   has_sv_data, needs_seasonality, idx_now, forecast_error, conversion,
                   peak_conversion>>
    /\ UNCHANGED outsideSeason

NextSeason ==
    \/ CalculatePerProductSeasonality
    \/ CalculateForecast0_6mSeasonality
    \/ CalculateForecast6_18mSeasonality
    \/ CalculateColumnNVelocity

SpecSeason == InitSeason /\ [][NextSeason]_vars

NonNegativeVolumes ==
    \A i \in SvRows(product_search_volume) : Val(product_search_volume[i]) >= 0

(***************************************************************************)
(* C14: for non-negative search volumes, at least 3 distinct weeks and a   *)
(* positive smoothed value among weeks 1..52, every value returned by      *)
(* calculate_per_product_seasonality lies in [0, 1] and at least one week  *)
(* has index exactly 1.0, a week of maximum smoothed volume.               *)
(***************************************************************************)
C14_IndexRange ==
    (/\ op = "calculate_per_product_seasonality"
     /\ NonNegativeVolumes
     /\ enough_weeks(product_search_volume)
     /\ \E w \in 1..52 : smoothing_chain(product_search_volume).H[w] > 0) =>
        /\ Len(seasonality_idx_lookup) = 52
        /\ \A w \in 1..52 : /\ 0 <= seasonality_idx_lookup[w]
                            /\ seasonality_idx_lookup[w] <= 100
        /\ \E w \in 1..52 :
              /\ seasonality_idx_lookup[w] = 100
              /\ \A v \in 1..52 : sv_chain.H[v] <= sv_chain.H[w]

\* volumes 1, 2, 2 in weeks 1, 2 and 52: the peak of the smoothed curve is
\* week 1 and the index falls off to 0 in mid-year
C14_Witness ==
    /\ op = "calculate_per_product_seasonality"
    /\ product_search_volume = <<Some(1), None, Some(2), Some(2), None>>
    /\ seasonality_idx_lookup[1] = 100
    /\ seasonality_idx_lookup[26] = 0
    /\ seasonality_idx_lookup[52] > 0
    /\ seasonality_idx_lookup[52] < 100

(***************************************************************************)
(* C15 as stated: the smoothing array has 54 positions of which 53 and 54  *)
(* are always zero; the returned index has exactly the keys 1..52, each    *)
(* round(H[w] / max(H[1..52]), 2); and changing or adding input rows that  *)
(* fall in ISO week 53 never changes any returned value.                   *)
(***************************************************************************)
C15_Week53Ignored ==
    (op = "calculate_per_product_seasonality" /\ NonNegativeVolumes) =>
        /\ sv_chain # <<>> =>
              /\ Len(sv_chain.B) = 54
              /\ sv_chain.B[53] = 0 /\ sv_chain.B[54] = 0
              /\ Len(seasonality_idx_lookup) = 52
              /\ LET m == SetMax({sv_chain.H[w] : w \in 1..52})
                 IN  m > 0 => \A w \in 1..52 :
                        seasonality_idx_lookup[w] = RoundHalfEven(100 * sv_chain.H[w], m)
        /\ \A i \in 1..Len(SvDates) : \A r \in {None} \cup {Some(v) : v \in SvVolumes} :
              SvDates[i].week = 53 =>
                 calculate_per_product_seasonality([product_search_volume EXCEPT ![i] = r])
                     = seasonality_idx_lookup

(***************************************************************************)
(* Where the seasonality of the 0-6m and 6-18m algorithms comes from       *)
(***************************************************************************)
SeasonalOps == {"calculate_forecast_0_6m_exact", "calculate_forecast_6_18m"}

\* seasonality_idx_lookup.get(week_of_year, default) of the weekly loop: the
\* default is 0.5 in the 0-6m algorithm and 1.0 in the 6-18m algorithm
IndexUsed(w) ==
    IF w <= Len(seasonality_idx_lookup) THEN seasonality_idx_lookup[w]
    ELSE IF op = "calculate_forecast_0_6m_exact" THEN 50 ELSE 100

PerProductAvailable ==
    SvRows(product_search_volume) # {} /\ enough_weeks(product_search_volume)

\* the call went past the early return of calculate_forecast_6_18m
Computed ==
    ~(op = "calculate_forecast_6_18m" /\ units_history = <<>>
      /\ SvRows(product_search_volume) = {} /\ seasonality_data = <<>>)

(***************************************************************************)
(* C16 as stated: in both seasonality-driven algorithms (0-6m and 6-18m)   *)
(* the per-product seasonality is used whenever the product's search       *)
(* volume has at least 3 distinct weeks, and otherwise the global table    *)
(* passed as seasonality_data gives the index of every week.               *)
(***************************************************************************)
C16_SourcePrecedence ==
    (op \in SeasonalOps /\ Computed) =>
        /\ PerProductAvailable =>
              seasonality_idx_lookup = calculate_per_product_seasonality(product_search_volume)
        /\ (~PerProductAvailable /\ seasonality_data # <<>>) =>
              \A w \in 1..Len(seasonality_data) :
                  IndexUsed(w) = RoundHalfEven(seasonality_data[w], 10)

\* the same statement of the 0-6m algorithm alone
C16_SourcePrecedence0_6m ==
    op = "calculate_forecast_0_6m_exact" => C16_SourcePrecedence

RecentWeek ==
    IF units_history # <<>> THEN units_history[Len(units_history)].week ELSE TodayWeek

\* the four guarded values
C18_GuardValues ==
    /\ op = "calculate_column_n_velocity" =>
          \A k \in 1..Len(N_values) :
              (k <= historical_rows
               /\ weighted_daily_average(prior_year_final_smooth, k - 1) <= 0) =>
                  N_values[k] = Some(Frac(0, 1))
    /\ (op = "calculate_forecast_6_18m" /\ Computed) =>
          /\ \A k \in 1..Len(units_history) :
                sv_smooth_env_of(sv_chain, units_history[k].week) <= 0 =>
                    conversion[k] = Frac(0, 1)
          /\ (\A k \in 1..Len(conversion) : conversion[k].num * conversion[k].den <= 0) =>
                peak_conversion = Some(DefaultPeakCvr)
    /\ (/\ op = "calculate_forecast_0_6m_exact"
        /\ \/ RecentWeek \notin 1..Len(seasonality_idx_lookup)
           \/ seasonality_idx_lookup[RecentWeek] <= 0) => idx_now = Some(15)

(***************************************************************************)
(* C18 as stated: no ratio computation in the core raises for any input;   *)
(* the velocity score of a week is 0 whenever its prior-year denominator   *)
(* is not positive, the conversion value of a week is 0 whenever its       *)
(* seasonal volume is not positive, idx_now is 0.15 whenever the index of  *)
(* the most recent historical week is unavailable or <= 0, and             *)
(* peak_conversion is 0.0012 whenever no week has a positive conversion    *)
(* value.                                                                  *)
(***************************************************************************)
C18_DivisionGuards ==
    /\ forecast_error = ""
    /\ C18_GuardValues

(***************************************************************************)
(* The order of the weekly sales rows.  A sales history is a sequence of   *)
(* rows with distinct week_end dates 1..n (in weeks) in any order.  The    *)
(* 18m+ calculation of algorithms_tps.py takes the rows as they come and   *)
(* keys what it computed for row i by the date of row i; the v2 class      *)
(* sorts the rows by week_end first.                                       *)
(***************************************************************************)
MaxRows == 3

SalesHistories ==
    UNION {{[i \in 1..n |-> [week_end |-> p[i], units |-> u[i]]] :
               p \in {q \in [1..n -> 1..n] : \A i, j \in 1..n : q[i] = q[j] => i = j},
               u \in [1..n -> 0..MaxValue]} : n \in 1..MaxRows}

\* units = [d.get('units') for d in units_data]: column C in the order given
UnitsColumn(rows) == [i \in 1..Len(rows) |-> Some(rows[i].units)]

\* df.sort_values('week_end'): the row of every date, by date
sort_values(rows) ==
    [d \in 1..Len(rows) |-> CHOOSE r \in {rows[i] : i \in 1..Len(rows)} : r.week_end = d]

\* i_value_lookup[week_end] = <value of row i>: the value stored for a date
\* is that of the last row carrying the date
KeyByDate(rows, column) ==
    [d \in 1..Len(rows) |->
        column[CHOOSE i \in 1..Len(rows) : rows[i].week_end = d]]

\* calculate_forecast_18m_plus up to column G: no sorting, no check
tps_curve_by_date(rows) ==
    KeyByDate(rows, calculate_units_final_curve(UnitsColumn(rows), extend_weeks))

\* _prepare_dataframe followed by columns D..G of _calc_units_final_smooth_85
v2_curve_by_date(rows) ==
    LET df == sort_values(rows)
        C == extend_units(UnitsColumn(df), MaxFutureRows)
        E == v2_peak_env_offset(v2_peak_env(C))
        G == v2_final_curve(C, E, v2_smooth_env(E))
    IN  [d \in 1..Len(rows) |-> G[d]]

InitOrder ==
    /\ op = "none"
    /\ OthersIdle("order")
    /\ sales_history \in SalesHistories
    /\ curve_by_date = <<>>

\* calculate_forecast_18m_plus(units_data, ...)
CalculateForecast18mPlusCurve ==
    /\ op = "none"
    /\ curve_by_date' = tps_curve_by_date(sales_history)
    /\ op' = "calculate_forecast_18m_plus"
    /\ UNCHANGED <<sales_history, outsideOrder>>

\* Forecast18MonthPlusV2: _prepare_dataframe, _calc_units_final_smooth_85
PrepareDataframeCurve ==
    /\ op = "none"
    /\ curve_by_date' = v2_curve_by_date(sales_history)
    /\ op' = "_prepare_dataframe"
    /\ UNCHANGED <<sales_history, outsideOrder>>

NextOrder == CalculateForecast18mPlusCurve \/ PrepareDataframeCurve

SpecOrder == InitOrder /\ [][NextOrder]_vars

(***************************************************************************)
(* C19 as stated: the core sorts the weekly sales input by week_end on     *)
(* entry (or rejects it), so what the 18m+ calculation computes for a week *)
(* is the same for every permutation of the same set of weekly rows: it is *)
(* what the calculation yields on the rows sorted by week_end.             *)
(***************************************************************************)
C19_OrderingDefence ==
    /\ op = "calculate_forecast_18m_plus" =>
          curve_by_date = tps_curve_by_date(sort_values(sales_history))
    /\ op = "_prepare_dataframe" =>
          curve_by_date = v2_curve_by_date(sort_values(sales_history))

\* the same statement of the v2 class alone
C19_OrderingDefenceV2 ==
    op = "_prepare_dataframe" => C19_OrderingDefence

\* ---------------------------------------------------------------------------
\* Orchestration: generate_full_forecast (algorithms_tps.py) and
\* ForecastService.run_forecast (forecast_service.py), called repeatedly over
\* the same arguments and the same stored rows while the wall clock runs.
\* ---------------------------------------------------------------------------

\* the last tick of the wall clock, the ticks in one day, the calls made
MaxClock == 5
TicksPerDay == 2
MaxCalls == 2

\* date.today(), datetime.today().date(), pd.Timestamp.today().normalize():
\* the day the clock shows
date_of(clock) == clock \div TicksPerDay

\* today.isoformat() in place of datetime.now().isoformat(): midnight of the
\* calculation date
generated_at_calculation_date(clock, t) == t * TicksPerDay

\* 'generated_at': datetime.now().isoformat()
generated_at_of(clock, t) == clock

\* settings['total_inventory'] = inventory.get('total_inventory', 0)
settings_with_inventory(s, inv) == [s EXCEPT !.total_inventory = inv.total_inventory]

\* the three keys one call of generate_full_forecast leaves in the dict
keys_of_call(inv, velocity) ==
    {[key |-> "total_inventory", value |-> inv.total_inventory],
     [key |-> "fba_available", value |-> inv.fba_available],
     [key |-> "calculated_velocity_adjustment", value |-> velocity]}

\* what one call returns, with the clock values it read kept beside it
ResultOf(entry, reads, generated, t, months, alg, inv, lead, make, doi, fba, needed, vel) ==
    [entry |-> entry, clock_reads |-> reads, generated_at |-> generated,
     calculation_date |-> t, product_age_months |-> months, algorithm |-> alg,
     inventory |-> inv, lead_time_days |-> lead, units_to_make |-> make,
     doi_total_days |-> doi, doi_fba_days |-> fba, total_units_needed |-> needed,
     sales_velocity_adjustment |-> vel]

\* generate_full_forecast with algorithm = '18m+' from the adjusted curve on:
\* s is the dict after the inventory was written into it
generate_full_forecast_result(clock, fc, wd, inv, s, t) ==
    LET extended_P == mask_18m_plus(fc, wd, t)
        lead_time_days == lead_time_days_of(s)
        weekly_needed == calculate_weekly_units_needed(extended_P, wd, t, lead_time_days)
        calibrated == calibrated_needed(weekly_needed, "18m+")
        doi_total == calculate_doi(extended_P, wd, s.total_inventory, t)
        doi_fba == calculate_doi(extended_P, wd, inv.fba_available, t)
    IN  ResultOf("generate_full_forecast", <<clock>>, Some(generated_at_of(clock, t)), t,
                 None, "18m+", inv, lead_time_days,
                 calculate_units_to_make(calibrated, s.total_inventory),
                 doi_total.doi_days, doi_fba.doi_days, SeqSum(calibrated), None)

\* round(days / 30.44, 2), in hundredths of a month
product_age_months_of(t, first) == RoundHalfEven((t - first) * 10000, 3044)

\* Forecast18MonthPlus._calculate_production_numbers: the rows of the
\* planning window and the rows of the lead time after it
legacy_unit_needed_total(fc, wd, t, s) ==
    LET lead_time == s.manufacture_lead_time + s.inbound_lead_time
        doi_goal == s.amazon_doi_goal + lead_time
        planning_end == t + doi_goal
        lead_time_end == planning_end + lead_time
        planning == [k \in 1..Len(fc) |->
                        IF wd[k] >= t /\ wd[k] <= planning_end THEN fc[k] ELSE 0]
        lead_time_units == [k \in 1..Len(fc) |->
                        IF wd[k] > planning_end /\ wd[k] <= lead_time_end THEN fc[k] ELSE 0]
    IN  SeqSum(planning) + SeqSum(lead_time_units)

\* Forecast18MonthPlus._calculate_inventory_tracking and _calculate_doi
legacy_calculate_doi(fc, wd, inv, t) ==
    LET future == {k \in 1..Len(wd) : wd[k] >= t}
        remaining(k) == inv - SeqSum([j \in 1..k |-> IF j \in future THEN fc[j] ELSE 0])
        negative == {k \in future : remaining(k) <= 0}
    IN  IF future = {} THEN 0
        ELSE IF negative = {} THEN SetMax({wd[k] : k \in future}) - t
        ELSE LET first_negative == CHOOSE k \in negative : \A j \in negative : k <= j
                 stockout_date ==
                     IF (first_negative - 1) \in future /\ fc[first_negative] > 0
                     THEN wd[first_negative - 1]
                          + ((7 * remaining(first_negative - 1)) \div fc[first_negative])
                     ELSE wd[first_negative]
             IN  Max2(0, stockout_date - t)

\* ForecastService.run_forecast: the age is taken at one reading of the
\* clock, the figures of Forecast18MonthPlus.calculate at a later one
run_forecast_result(age_clock, calc_clock, fc, wd, inv, s, first, velocity) ==
    LET age_today == date_of(age_clock)
        t == date_of(calc_clock)
        age_days == age_today - first
        unit_needed_total == legacy_unit_needed_total(fc, wd, t, s)
    IN  ResultOf("run_forecast", <<age_clock, calc_clock>>, None, t,
                 Some(product_age_months_of(age_today, first)),
                 determine_algorithm(AgeMonths(age_days)), inv,
                 s.manufacture_lead_time + s.inbound_lead_time,
                 Max2(0, unit_needed_total - inv.total_inventory),
                 legacy_calculate_doi(fc, wd, inv.total_inventory, t),
                 legacy_calculate_doi(fc, wd, inv.fba_available, t),
                 unit_needed_total, Some(velocity))

InventoryInputs ==
    {[total_inventory |-> 0, fba_available |-> 0], [total_inventory |-> 3, fba_available |-> 1]}

\* first sale 600 or 100 days before day 0
FirstSaleInputs == {-600, -100}

OrchestrationSettings == {SettingsOf(2, 1, 0, 1), SettingsOf(5, 3, 1, 3)}

InitOrchestration ==
    /\ op = "none"
    /\ OthersIdle("orchestration")
    /\ today \in {0, 2}
    /\ settings \in OrchestrationSettings
    /\ week_dates \in {WeeklyDates(1, 3), WeeklyDates(2, 3)}
    /\ forecasts \in {<<2, 2, 2>>, <<1, 50, 1>>}
    /\ wall_clock = 0
    /\ inventory_levels \in InventoryInputs
    /\ first_sale \in FirstSaleInputs
    /\ sales_velocity_adjustment \in {-10, 25}
    /\ keys_written = {}
    /\ calls_returned = <<>>

\* generate_full_forecast(asin, units_sold_data, seasonality_data, inventory,
\* settings, today)
GenerateFullForecastCall ==
    /\ Len(calls_returned) < MaxCalls
    /\ LET s == settings_with_inventory(settings, inventory_levels)
           written == keys_of_call(inventory_levels, sales_velocity_adjustment)
       IN  /\ settings' = s
           /\ keys_written' = {e \in keys_written : \A w \in written : w.key # e.key}
                                  \cup written
           /\ calls_returned' = Append(calls_returned,
                                 generate_full_forecast_result(wall_clock, forecasts, week_dates,
                                                        inventory_levels, s, today))
    /\ op' = "generate_full_forecast"
    /\ UNCHANGED <<today, forecasts, week_dates, wall_clock, inventory_levels, first_sale,
                   sales_velocity_adjustment>>
    /\ UNCHANGED outsideOrchestration

\* ForecastService.run_forecast(asin, settings): the clock may move on while
\* the call runs
RunForecastCall ==
    /\ Len(calls_returned) < MaxCalls
    /\ \E during \in 0..1 :
           /\ wall_clock + during <= MaxClock
           /\ wall_clock' = wall_clock + during
           /\ calls_returned' = Append(calls_returned,
                                 run_forecast_result(wall_clock, wall_clock + during, forecasts,
                                              week_dates, inventory_levels, settings,
                                              first_sale, sales_velocity_adjustment))
    /\ op' = "run_forecast"
    /\ UNCHANGED <<planVars, inventory_levels, first_sale, sales_velocity_adjustment,
                   keys_written>>
    /\ UNCHANGED outsideOrchestration

\* time passes between two calls
ClockTick ==
    /\ wall_clock < MaxClock
    /\ wall_clock' = wall_clock + 1
    /\ UNCHANGED <<op, planVars, inventory_levels, first_sale, sales_velocity_adjustment,
                   keys_written, calls_returned>>
    /\ UNCHANGED outsideOrchestration

NextOrchestration ==
    \/ GenerateFullForecastCall
    \/ RunForecastCall
    \/ ClockTick

SpecOrchestration == InitOrchestration /\ [][NextOrchestration]_vars

\* the fields of a result but the generation time
FieldsBut_generated_at(r) == [r EXCEPT !.generated_at = None, !.clock_reads = <<>>]

\* the fields of a result the caller sees
FieldsReturned(r) == [r EXCEPT !.clock_reads = <<>>]

\* the two results agree in every field
SameFields(p) == FieldsReturned(calls_returned[p[1]]) = FieldsReturned(calls_returned[p[2]])

\* the two results agree in every field but generated_at
SameFieldsBut_generated_at(p) ==
    FieldsBut_generated_at(calls_returned[p[1]]) = FieldsBut_generated_at(calls_returned[p[2]])

\* two calls of the same entry point in one run
SameEntryPairs(entry) ==
    {p \in (1..Len(calls_returned)) \X (1..Len(calls_returned)) :
        /\ p[1] < p[2]
        /\ calls_returned[p[1]].entry = entry
        /\ calls_returned[p[2]].entry = entry}

\* every reading of the clock in both calls fell on the day d
ReadOnDay(p, d) ==
    \A i \in {p[1], p[2]} :
        \A n \in 1..Len(calls_returned[i].clock_reads) :
            date_of(calls_returned[i].clock_reads[n]) = d

Item(k, v) == [key |-> k, value |-> v]

\* d[k] = v
dict_set(d, k, v) == {e \in d : e.key # k} \cup {Item(k, v)}

\* d.get(k, default)
dict_get(d, k, default) ==
    IF \E e \in d : e.key = k THEN (CHOOSE e \in d : e.key = k).value ELSE default

\* DEFAULT_SETTINGS as the module defines it
DEFAULT_SETTINGS_dict ==
    {Item("amazon_doi_goal", 93), Item("inbound_lead_time", 30),
     Item("manufacture_lead_time", 7), Item("market_adjustment", 5),
     Item("sales_velocity_adjustment", 10), Item("velocity_weight", 15)}

\* settings = DEFAULT_SETTINGS.copy() when the caller passes none; the
\* caller's own dict otherwise
settings_in_call(arg, defaults) == IF IsNone(arg) THEN defaults ELSE Val(arg)

\* calculate_forecast_18m_plus: settings['calculated_velocity_adjustment'] = velocity_adj
settings_after_18m_plus(s, velocity) ==
    LET use_dynamic == dict_get(s, "auto_velocity", 1) = 1
        velocity_adj == IF use_dynamic THEN velocity
                        ELSE dict_get(s, "sales_velocity_adjustment", 10)
    IN  dict_set(s, "calculated_velocity_adjustment", velocity_adj)

\* generate_full_forecast: the inventory is written into the dict, then the
\* three algorithms run on it
settings_after_generate_full_forecast(s, inv, velocity) ==
    LET with_total == dict_set(s, "total_inventory", inv.total_inventory)
        with_fba == dict_set(with_total, "fba_available", inv.fba_available)
    IN  settings_after_18m_plus(with_fba, velocity)

\* what the caller holds after the call: its dict is the one written to, a
\* copy of the defaults is dropped
caller_settings_after(arg, written) == IF IsNone(arg) THEN None ELSE Some(written)

SettingsArgs ==
    {None, Some({}), Some(dict_set(DEFAULT_SETTINGS_dict, "total_inventory", 5)),
     Some({Item("auto_velocity", 0), Item("sales_velocity_adjustment", 61)})}

UnitsDataArgs == {<<3, 1, 4, 1>>, <<2, 2, 2, 2, 2>>}

InitFrame ==
    /\ op = "none"
    /\ OthersIdle("frame")
    /\ default_settings = DEFAULT_SETTINGS_dict
    /\ settings_arg \in SettingsArgs
    /\ inventory_arg \in InventoryInputs
    /\ units_data_arg \in UnitsDataArgs
    /\ velocity_computed \in {-25, 0, 10}
    /\ calls_made = 0

\* calculate_forecast_18m_plus(units_data, today, settings)
CalculateForecast18mPlusFrame ==
    /\ calls_made < MaxCalls
    /\ LET s == settings_in_call(settings_arg, default_settings)
       IN  settings_arg' = caller_settings_after(settings_arg,
                                                 settings_after_18m_plus(s, velocity_computed))
    /\ calls_made' = calls_made + 1
    /\ op' = "calculate_forecast_18m_plus"
    /\ UNCHANGED <<default_settings, inventory_arg, units_data_arg, velocity_computed>>
    /\ UNCHANGED outsideFrame

\* calculate_forecast_6_18m(units_data, seasonality_data, today, settings, ...)
CalculateForecast6_18mFrame ==
    /\ calls_made < MaxCalls
    /\ calls_made' = calls_made + 1
    /\ op' = "calculate_forecast_6_18m"
    /\ UNCHANGED <<default_settings, settings_arg, inventory_arg, units_data_arg,
                   velocity_computed>>
    /\ UNCHANGED outsideFrame

\* calculate_forecast_0_6m_exact(units_data, seasonality_data, vine_claims, today, settings, ...)
CalculateForecast0_6mFrame ==
    /\ calls_made < MaxCalls
    /\ calls_made' = calls_made + 1
    /\ op' = "calculate_forecast_0_6m_exact"
    /\ UNCHANGED <<default_settings, settings_arg, inventory_arg, units_data_arg,
                   velocity_computed>>
    /\ UNCHANGED outsideFrame

\* generate_full_forecast(asin, units_sold_data, seasonality_data, inventory, settings, today)
GenerateFullForecastFrame ==
    /\ calls_made < MaxCalls
    /\ LET s == settings_in_call(settings_arg, default_settings)
       IN  settings_arg' =
               caller_settings_after(settings_arg,
                   settings_after_generate_full_forecast(s, inventory_arg, velocity_computed))
    /\ calls_made' = calls_made + 1
    /\ op' = "generate_full_forecast"
    /\ UNCHANGED <<default_settings, inventory_arg, units_data_arg, velocity_computed>>
    /\ UNCHANGED outsideFrame

NextFrame ==
    \/ CalculateForecast18mPlusFrame
    \/ CalculateForecast6_18mFrame
    \/ CalculateForecast0_6mFrame
    \/ GenerateFullForecastFrame

SpecFrame == InitFrame /\ [][NextFrame]_vars

\* C21: a call leaves every argument it was given and the module-level
\* DEFAULT_SETTINGS unchanged: the caller's settings dict has the same keys and
\* values after the call as before it.
C21_ArgumentsUnchanged ==
    [][/\ settings_arg' = settings_arg
       /\ default_settings' = default_settings
       /\ units_data_arg' = units_data_arg
       /\ inventory_arg' = inventory_arg]_vars

\* the part of C21 the code keeps: after any sequence of calls DEFAULT_SETTINGS
\* holds its initial values, and the units_data list and the inventory dict
\* are as the caller passed them
C21_DefaultsUnchanged ==
    [][/\ default_settings' = default_settings
       /\ default_settings = DEFAULT_SETTINGS_dict
       /\ units_data_arg' = units_data_arg
       /\ inventory_arg' = inventory_arg]_vars

\* ---------------------------------------------------------------------------
\* Fan-out: get_all_forecasts (routes.py) runs calculate_single for every
\* product on a thread pool.  A task is four steps apart: the copy of
\* custom_settings, the two inventory items written into the copy, the velocity
\* the 18m+ algorithm stores in it, and the reading of the dict for the
\* figures returned.
\* ---------------------------------------------------------------------------

MaxProducts == 3

\* ThreadPoolExecutor(max_workers=8)
max_workers == 8

Products == 1..MaxProducts

\* the main thread, and the place of custom_settings among the dicts
MainThread == 0

\* the rows loaded up front for product a; in the second variant the third
\* product has too few sales rows and every fourth has no first sale
ProductData(a, variant) ==
    [first_sale |-> IF a % 4 = 0 THEN None
                    ELSE Some(CASE a % 4 = 1 -> -600 [] a % 4 = 2 -> -300 [] OTHER -> -100),
     sales_rows |-> IF variant = 2 /\ a % 4 = 3 THEN 3 ELSE 4 + a,
     total_inv |-> 2 * a + variant,
     fba_avail |-> a,
     curve |-> <<7 * a, 20 * a, 50>>,
     velocity |-> 10 * a]

Catalogues == {[a \in Products |-> ProductData(a, variant)] : variant \in 1..2}

\* custom_settings = DEFAULT_SETTINGS.copy() with the request parameters
custom_settings_of(s) ==
    [amazon_doi_goal |-> s.amazon_doi_goal, inbound_lead_time |-> s.inbound_lead_time,
     manufacture_lead_time |-> s.manufacture_lead_time, total_inventory |-> None,
     fba_available |-> None, calculated_velocity_adjustment |-> None]

\* every task writes into the one custom_settings dict
settings_of_task_shared(a) == MainThread

\* settings = custom_settings.copy(): the dict of task a is its own
settings_of_task(a) == a

\* settings.get(key, 0)
get_or_zero(v) == IF IsNone(v) THEN 0 ELSE Val(v)

\* algorithm = "18m+" if age_months >= 18 else ("6-18m" if age_months >= 6 else "0-6m")
task_algorithm(p, t) == calculate_single_algorithm(t - Val(p.first_sale))

\* the figures of the algorithm run on the forecast rows of the product, read
\* from the dict s, and the entry calculate_single builds from them
calculate_single_entry(a, p, s, wd, t) ==
    LET alg == task_algorithm(p, t)
        rows == IF alg = "18m+" THEN mask_18m_plus(p.curve, wd, t)
                ELSE IF alg = "6-18m" THEN mask_6_18m(p.curve, wd, t) ELSE p.curve
        weekly_needed == calculate_weekly_units_needed(rows, wd, t, lead_time_days_of(s))
        calibrated == calibrated_needed(weekly_needed, alg)
        total_inventory == get_or_zero(s.total_inventory)
        fba_available == get_or_zero(s.fba_available)
    IN  [asin |-> a,
         units_to_make |-> calculate_units_to_make(calibrated, total_inventory),
         doi_total_days |-> calculate_doi(rows, wd, total_inventory, t).doi_days,
         doi_fba_days |-> calculate_doi(rows, wd, fba_available, t).doi_days,
         total_inventory |-> p.total_inv, fba_available |-> p.fba_avail,
         algorithm |-> alg,
         age_months |-> RoundHalfEven((t - Val(p.first_sale)) * 1000, 3044)]

\* calculate_single returns None without a first sale or with fewer than 4 rows
task_skipped(p) == IsNone(p.first_sale) \/ p.sales_rows < 4

\* calculate_single(asin) run with no other task about
calculate_single_alone(a, p, custom, wd, t) ==
    IF task_skipped(p) THEN None
    ELSE LET alg == task_algorithm(p, t)
             s == [custom EXCEPT !.total_inventory = Some(p.total_inv),
                                 !.fba_available = Some(p.fba_avail),
                                 !.calculated_velocity_adjustment =
                                     IF alg = "18m+" THEN Some(p.velocity) ELSE None]
         IN  Some(calculate_single_entry(a, p, s, wd, t))

\* forecasts.sort(key=doi_total_days): stable, ascending
RECURSIVE sort_by_doi(_)
sort_by_doi(l) ==
    IF l = <<>> THEN <<>>
    ELSE LET rest == sort_by_doi(Tail(l))
             before == SelectSeq(rest, LAMBDA e : e.doi_total_days < Head(l).doi_total_days)
             after == SelectSeq(rest, LAMBDA e : e.doi_total_days >= Head(l).doi_total_days)
         IN  before \o <<Head(l)>> \o after

Running == {a \in Products : task_pc[a] \notin {"submitted", "done", "collected"}}

InitFanout ==
    /\ op = "none"
    /\ OthersIdle("fanout")
    /\ today = 0
    /\ settings \in OrchestrationSettings
    /\ week_dates = WeeklyDates(2, 3)
    /\ forecasts = <<>>
    /\ catalogue \in Catalogues
    /\ heap = [r \in {MainThread} \cup Products |->
                  IF r = MainThread THEN Some(custom_settings_of(settings)) ELSE None]
    /\ written_by = [r \in {MainThread} \cup Products |-> MainThread]
    /\ task_pc = [a \in Products |-> "submitted"]
    /\ futures = [a \in Products |-> None]
    /\ reads_seen = {}
    /\ collected = <<>>
    /\ response = None

\* the guards of calculate_single that return None
TaskSkip ==
    /\ \E a \in Products :
           /\ task_pc[a] = "submitted"
           /\ Cardinality(Running) < max_workers
           /\ task_skipped(catalogue[a])
           /\ task_pc' = [task_pc EXCEPT ![a] = "done"]
    /\ op' = "calculate_single"
    /\ UNCHANGED <<planVars, catalogue, heap, written_by, futures, reads_seen, collected,
                   response>>
    /\ UNCHANGED outsideFanout

\* settings = custom_settings.copy()
TaskCopySettings ==
    /\ \E a \in Products :
           /\ task_pc[a] = "submitted"
           /\ Cardinality(Running) < max_workers
           /\ ~task_skipped(catalogue[a])
           /\ heap' = [heap EXCEPT ![settings_of_task(a)] = heap[MainThread]]
           /\ written_by' = [written_by EXCEPT ![settings_of_task(a)] =
                                IF settings_of_task(a) = MainThread THEN @ ELSE a]
           /\ reads_seen' = reads_seen \cup {<<a, written_by[MainThread]>>}
           /\ task_pc' = [task_pc EXCEPT ![a] = "copied"]
    /\ op' = "calculate_single"
    /\ UNCHANGED <<planVars, catalogue, futures, collected, response>>
    /\ UNCHANGED outsideFanout

\* settings['total_inventory'] = total_inv
TaskWriteTotalInventory ==
    /\ \E a \in Products :
           /\ task_pc[a] = "copied"
           /\ LET r == settings_of_task(a)
              IN  /\ heap' = [heap EXCEPT ![r] =
                                Some([Val(@) EXCEPT !.total_inventory =
                                                        Some(catalogue[a].total_inv)])]
                  /\ written_by' = [written_by EXCEPT ![r] = a]
           /\ task_pc' = [task_pc EXCEPT ![a] = "total_written"]
    /\ op' = "calculate_single"
    /\ UNCHANGED <<planVars, catalogue, futures, reads_seen, collected, response>>
    /\ UNCHANGED outsideFanout

\* settings['fba_available'] = fba_avail
TaskWriteFbaAvailable ==
    /\ \E a \in Products :
           /\ task_pc[a] = "total_written"
           /\ LET r == settings_of_task(a)
              IN  /\ heap' = [heap EXCEPT ![r] =
                                Some([Val(@) EXCEPT !.fba_available =
                                                        Some(catalogue[a].fba_avail)])]
                  /\ written_by' = [written_by EXCEPT ![r] = a]
           /\ task_pc' = [task_pc EXCEPT ![a] = "inventory_written"]
    /\ op' = "calculate_single"
    /\ UNCHANGED <<planVars, catalogue, futures, reads_seen, collected, response>>
    /\ UNCHANGED outsideFanout

\* calculate_forecast_18m_plus: settings['calculated_velocity_adjustment'] = velocity_adj
TaskStoreVelocity ==
    /\ \E a \in Products :
           /\ task_pc[a] = "inventory_written"
           /\ task_algorithm(catalogue[a], today) = "18m+"
           /\ LET r == settings_of_task(a)
              IN  /\ heap' = [heap EXCEPT ![r] =
                                Some([Val(@) EXCEPT !.calculated_velocity_adjustment =
                                                        Some(catalogue[a].velocity)])]
                  /\ written_by' = [written_by EXCEPT ![r] = a]
           /\ task_pc' = [task_pc EXCEPT ![a] = "velocity_stored"]
    /\ op' = "calculate_single"
    /\ UNCHANGED <<planVars, catalogue, futures, reads_seen, collected, response>>
    /\ UNCHANGED outsideFanout

\* the algorithm reads the lead times and the inventory from the dict, and
\* calculate_single returns its entry
TaskReturn ==
    /\ \E a \in Products :
           /\ \/ task_pc[a] = "velocity_stored"
              \/ /\ task_pc[a] = "inventory_written"
                 /\ task_algorithm(catalogue[a], today) # "18m+"
           /\ LET r == settings_of_task(a)
              IN  /\ futures' = [futures EXCEPT ![a] =
                         Some(calculate_single_entry(a, catalogue[a], Val(heap[r]),
                                                     week_dates, today))]
                  /\ reads_seen' = reads_seen \cup {<<a, written_by[r]>>}
           /\ task_pc' = [task_pc EXCEPT ![a] = "done"]
    /\ op' = "calculate_single"
    /\ UNCHANGED <<planVars, catalogue, heap, written_by, collected, response>>
    /\ UNCHANGED outsideFanout

\* for future in as_completed(futures): forecasts.append(result) if result
Collect ==
    /\ \E a \in Products :
           /\ task_pc[a] = "done"
           /\ collected' = IF IsNone(futures[a]) THEN collected
                           ELSE Append(collected, Val(futures[a]))
           /\ task_pc' = [task_pc EXCEPT ![a] = "collected"]
    /\ op' = "as_completed"
    /\ UNCHANGED <<planVars, catalogue, heap, written_by, futures, reads_seen, response>>
    /\ UNCHANGED outsideFanout

\* forecasts.sort(...) and the response, once every future was collected
Respond ==
    /\ \A a \in Products : task_pc[a] = "collected"
    /\ IsNone(response)
    /\ response' = Some(sort_by_doi(collected))
    /\ op' = "get_all_forecasts"
    /\ UNCHANGED <<planVars, catalogue, heap, written_by, task_pc, futures, reads_seen,
                   collected>>
    /\ UNCHANGED outsideFanout

NextFanout ==
    \/ TaskSkip
    \/ TaskCopySettings
    \/ TaskWriteTotalInventory
    \/ TaskWriteFbaAvailable
    \/ TaskStoreVelocity
    \/ TaskReturn
    \/ Collect
    \/ Respond

SpecFanout == InitFanout /\ [][NextFanout]_vars

\* C22: under every interleaving of the tasks, the entry each finished task
\* returned is the entry calculate_single gives for that product alone, and
\* every dict value a task read was written by the task itself or, before the
\* pool started, by the main thread.
C22_FanOutIndependent ==
    /\ \A a \in Products :
           task_pc[a] \in {"done", "collected"} =>
               futures[a] = calculate_single_alone(a, catalogue[a], Val(heap[MainThread]),
                                                   week_dates, today)
    /\ \A rw \in reads_seen : rw[2] \in {rw[1], MainThread}
    /\ heap[MainThread] = Some(custom_settings_of(settings))

\* one task has returned an entry with units to make while another, further
\* down the list, is between its two inventory writes
C22_Witness ==
    \E a, b \in Products :
        /\ a < b
        /\ task_pc[a] = "total_written"
        /\ task_pc[b] = "done"
        /\ ~IsNone(futures[b])
        /\ Val(futures[b]).units_to_make > 0
        /\ Val(heap[a]).total_inventory # Val(heap[b]).total_inventory

\* ---------------------------------------------------------------------------
\* Dispatch: which algorithm computes the numbers an orchestrating entry point
\* returns, and under which name (forecast_service.py, cache_service.py,
\* routes.py).
\* ---------------------------------------------------------------------------

AlgorithmNames == {"18m+", "6-18m", "0-6m"}

\* ages on both sides of the 6 and 18 month boundaries
DispatchAges == {0, 100, 182, 183, 300, 547, 548, MaxAgeDays}

InitDispatch ==
    /\ op = "none"
    /\ OthersIdle("dispatch")
    /\ product_age_days \in DispatchAges
    /\ force_algorithm \in {None} \cup {Some(n) : n \in AlgorithmNames}
    /\ tps_18m_raises \in BOOLEAN
    /\ units_missing \in BOOLEAN
    /\ chosen_algorithm = "none"
    /\ ran_algorithm = "none"
    /\ reported_algorithm = "none"

\* ForecastService.run_forecast: algorithm = force_algorithm or
\* determine_algorithm(age); both branches call _run_18m_plus_forecast
RunForecastDispatch ==
    /\ op = "none"
    /\ LET alg == IF IsNone(force_algorithm)
                  THEN determine_algorithm(AgeMonths(product_age_days))
                  ELSE Val(force_algorithm)
       IN  /\ chosen_algorithm' = alg
           /\ ran_algorithm' = "18m+"
           /\ reported_algorithm' = alg
    /\ op' = "run_forecast"
    /\ UNCHANGED <<product_age_days, force_algorithm, tps_18m_raises, units_missing>>
    /\ UNCHANGED outsideDispatch

\* CacheService.refresh_all_forecasts, one product: the 18m+ algorithm is
\* tried first whatever the age, then the simple average, then zeros
RefreshAllForecastsDispatch ==
    /\ op = "none"
    /\ LET alg == refresh_all_forecasts_algorithm(product_age_days)
       IN  /\ chosen_algorithm' = alg
           /\ ran_algorithm' = IF ~tps_18m_raises THEN "18m+"
                               ELSE IF ~units_missing THEN "simple" ELSE "fallback"
           /\ reported_algorithm' = IF ~tps_18m_raises
                                    THEN (IF alg # "18m+" THEN alg \o "->18m+" ELSE alg)
                                    ELSE IF ~units_missing THEN "simple" ELSE "fallback"
    /\ op' = "refresh_all_forecasts"
    /\ UNCHANGED <<product_age_days, force_algorithm, tps_18m_raises, units_missing>>
    /\ UNCHANGED outsideDispatch

\* get_all_forecasts.calculate_single: the algorithm of the age runs; a raise
\* drops the product
CalculateSingleDispatch ==
    /\ op = "none"
    /\ LET alg == calculate_single_algorithm(product_age_days)
           raised == alg = "18m+" /\ tps_18m_raises
       IN  /\ chosen_algorithm' = alg
           /\ ran_algorithm' = IF raised THEN "none" ELSE alg
           /\ reported_algorithm' = IF raised THEN "none" ELSE alg
    /\ op' = "calculate_single"
    /\ UNCHANGED <<product_age_days, force_algorithm, tps_18m_raises, units_missing>>
    /\ UNCHANGED outsideDispatch

NextDispatch ==
    \/ RunForecastDispatch
    \/ RefreshAllForecastsDispatch
    \/ CalculateSingleDispatch

SpecDispatch == InitDispatch /\ [][NextDispatch]_vars

\* C23: the algorithm run_forecast or refresh_all_forecasts reports for a
\* result is the algorithm chosen by age (or forced), and the numbers of the
\* result were computed by it.
C23_Dispatch ==
    op \in {"run_forecast", "refresh_all_forecasts"} =>
        /\ reported_algorithm \in AlgorithmNames => ran_algorithm = reported_algorithm
        /\ ran_algorithm = chosen_algorithm

\* the same of get_all_forecasts.calculate_single, which does dispatch by age
C23_DispatchCalculateSingle ==
    (op = "calculate_single" /\ reported_algorithm # "none") =>
        /\ ran_algorithm = reported_algorithm
        /\ ran_algorithm = chosen_algorithm

\* ---------------------------------------------------------------------------
\* Planning window: the three implementations of production sizing side by
\* side, over the same rows and settings.
\* ---------------------------------------------------------------------------

\* Forecast18MonthPlus._calculate_production_numbers, column
\* weekly_units_needed: the forecast of the rows inside the planning window
legacy_weekly_units_needed(fc, wd, t, s) ==
    LET doi_goal == s.amazon_doi_goal + s.manufacture_lead_time + s.inbound_lead_time
    IN  [k \in 1..Len(fc) |->
            IF wd[k] >= t /\ wd[k] <= t + doi_goal THEN Some(700 * fc[k]) ELSE None]

\* Forecast18MonthPlus._calculate_production_numbers and the units to make
\* Forecast18MonthPlus.calculate derives from it
CalculateProductionNumbersLegacy ==
    /\ op = "none"
    /\ LET unit_needed_total == legacy_unit_needed_total(forecasts, week_dates, today, settings)
       IN  /\ final_forecast' = forecasts
           /\ weekly_units_needed' =
                  legacy_weekly_units_needed(forecasts, week_dates, today, settings)
           /\ total_units_needed' = Some(700 * unit_needed_total)
           /\ units_to_make' = Some(Max2(0, unit_needed_total - settings.total_inventory))
    /\ op' = "_calculate_production_numbers"
    /\ UNCHANGED outsideSizing

NextWindow ==
    \/ CalculateForecast18mPlusSizing
    \/ CalcProductionNumbers
    \/ CalculateProductionNumbersLegacy

SpecWindow == InitSizing /\ [][NextWindow]_vars

\* the forecast of the rows that end on or after today and begin before
\* today + total_doi_goal, in 1/700 of a unit
WindowForecast ==
    LET total_doi_goal == lead_time_days_of(settings)
    IN  700 * SeqSum([k \in 1..Len(final_forecast) |->
                         IF week_dates[k] >= today /\ week_dates[k] - 7 < today + total_doi_goal
                         THEN final_forecast[k] ELSE 0])

\* C24: in each of the three implementations the total units needed come
\* from the weeks of [today, today + total_doi_goal] alone, the lead time
\* counted once: no week lying wholly after today + total_doi_goal adds to it.
C24_PlanningWindow ==
    (/\ op \in {"calculate_forecast_18m_plus", "_calc_production_numbers",
                "_calculate_production_numbers"}
     /\ ~IsNone(total_units_needed)) => Val(total_units_needed) <= WindowForecast

\* the same of calculate_forecast_18m_plus and of the v2 class alone
C24_PlanningWindowTpsV2 ==
    (/\ op \in {"calculate_forecast_18m_plus", "_calc_production_numbers"}
     /\ ~IsNone(total_units_needed)) => Val(total_units_needed) <= WindowForecast

\* ---------------------------------------------------------------------------
\* Prior-year peak envelope, column K, from column J (0-based rows as in the
\* code; row i of the code is element i + 1 here).
\* ---------------------------------------------------------------------------

\* calculate_forecast_18m_plus and get_prior_year_peak_env: J holds numbers
tps_prior_year_k(J) ==
    [n \in 1..Len(J) |->
        LET i == n - 1
        IN  IF i < 2 THEN J[n] ELSE Some(Max2(Val(J[n - 2]), Val(J[n - 1])))]

\* Forecast18MonthPlusV2._calc_prior_year_columns: the largest value that is
\* not NaN among iloc[max(0, i - 1) : i + 1], NaN when there is none
v2_prior_year_k(J) ==
    [n \in 1..Len(J) |->
        LET i == n - 1
            start_idx == Max2(0, i - 1)
            valid == {Val(J[m + 1]) : m \in {x \in start_idx..i : ~IsNone(J[x + 1])}}
        IN  IF valid = {} THEN None ELSE Some(SetMax(valid))]

AllPresent(J) == \A n \in 1..Len(J) : ~IsNone(J[n])

InitPeak ==
    /\ op = "none"
    /\ OthersIdle("peak")
    /\ prior_year_j \in SeqsUpTo(SeriesValues, MaxSeries + 1)
    /\ prior_year_k = <<>>

\* calculate_forecast_18m_plus, column K (extended_k)
CalculateForecast18mPlusColumnK ==
    /\ op = "none"
    /\ AllPresent(prior_year_j)
    /\ prior_year_k' = Column(tps_prior_year_k(prior_year_j))
    /\ op' = "calculate_forecast_18m_plus"
    /\ UNCHANGED <<prior_year_j, outsidePeak>>

\* get_prior_year_peak_env
GetPriorYearPeakEnv ==
    /\ op = "none"
    /\ AllPresent(prior_year_j)
    /\ prior_year_k' = Column(tps_prior_year_k(prior_year_j))
    /\ op' = "get_prior_year_peak_env"
    /\ UNCHANGED <<prior_year_j, outsidePeak>>

\* Forecast18MonthPlusV2._calc_prior_year_columns, column K
CalcPriorYearColumns ==
    /\ op = "none"
    /\ prior_year_k' = Column(v2_prior_year_k(prior_year_j))
    /\ op' = "_calc_prior_year_columns"
    /\ UNCHANGED <<prior_year_j, outsidePeak>>

NextPeak ==
    \/ CalculateForecast18mPlusColumnK
    \/ GetPriorYearPeakEnv
    \/ CalcPriorYearColumns

SpecPeak == InitPeak /\ [][NextPeak]_vars

\* K[i] is max(J[i-2], J[i-1]) from row 2 on and J[i] before, wherever the J
\* values it is made of are present
TrailingTwoWeekMax ==
    /\ Len(prior_year_k) = Len(prior_year_j)
    /\ \A n \in 1..Len(prior_year_j) :
           IF n - 1 < 2
           THEN ~IsNone(prior_year_j[n]) => prior_year_k[n] = prior_year_j[n]
           ELSE (~IsNone(prior_year_j[n - 2]) /\ ~IsNone(prior_year_j[n - 1])) =>
                    prior_year_k[n] = Some(Max2(Val(prior_year_j[n - 2]),
                                                Val(prior_year_j[n - 1])))

\* C25: in calculate_forecast_18m_plus, get_prior_year_peak_env and
\* Forecast18MonthPlusV2._calc_prior_year_columns, K[i] = max(J[i-2], J[i-1])
\* for every row i >= 2, the row's own J[i] left out, and K[i] = J[i] for i < 2.
C25_PriorYearPeakEnvelope ==
    op \in {"calculate_forecast_18m_plus", "get_prior_year_peak_env",
            "_calc_prior_year_columns"} => TrailingTwoWeekMax

\* the same of the two functions of algorithms_tps.py alone
C25_PriorYearPeakEnvelopeTps ==
    op \in {"calculate_forecast_18m_plus", "get_prior_year_peak_env"} => TrailingTwoWeekMax

\* ---------------------------------------------------------------------------
\* Adjusted forecast, column O, in the four 18m+ implementations.  The three
\* adjustments are whole percents; a factor and a forecast are integers in
\* millionths.
\* ---------------------------------------------------------------------------

\* 1 + market_adj + (velocity_adj * velocity_weight)
additive_adjustment(a) ==
    100 * (10000 + 100 * a.market_adjustment + a.velocity_adjustment * a.velocity_weight)

\* (1 + market_adj) * (1 + sales_velocity_adj * velocity_weight)
multiplicative_adjustment(a) ==
    (100 + a.market_adjustment) * (10000 + a.velocity_adjustment * a.velocity_weight)

\* calculate_forecast_18m_plus (extended_O) and calculate_adj_forecast: 0 for
\* the rows before today
tps_adj_forecast(L, wd, t, a) ==
    [k \in 1..Len(L) |->
        IF wd[k] >= t THEN Some(Val(L[k]) * additive_adjustment(a))
        ELSE Some(0)]

\* Forecast18MonthPlusV2._calc_forecast_columns: NaN for the rows before today
\* and for the rows without a prior-year value
v2_adj_forecast(L, wd, t, a) ==
    [k \in 1..Len(L) |->
        IF wd[k] >= t /\ ~IsNone(L[k]) THEN Some(Val(L[k]) * additive_adjustment(a))
        ELSE None]

\* Forecast18MonthPlus._generate_forecast: base is the units_final_smooth_85
\* of 52 rows before
legacy_adj_forecast(base, wd, t, a) ==
    [k \in 1..Len(base) |->
        IF wd[k] >= t THEN Some(Val(base[k]) * multiplicative_adjustment(a))
        ELSE None]

AdjustmentInputs ==
    [market_adjustment : {0, 5}, velocity_adjustment : {-25, 0, 10}, velocity_weight : {0, 15}]

InitAdjust ==
    /\ op = "none"
    /\ OthersIdle("adjust")
    /\ today = 0
    /\ settings = DEFAULT_SETTINGS
    /\ forecasts = <<>>
    /\ prior_year_smooth \in SeqsUpTo(SeriesValues, MaxSeries - 1)
    /\ \E off \in FirstOffsets : week_dates = WeeklyDates(today + off, Len(prior_year_smooth))
    /\ adjustments \in AdjustmentInputs
    /\ adj_forecast = <<>>

\* calculate_forecast_18m_plus, column O
CalculateForecast18mPlusColumnO ==
    /\ op = "none"
    /\ AllPresent(prior_year_smooth)
    /\ adj_forecast' = Column(tps_adj_forecast(prior_year_smooth, week_dates, today, adjustments))
    /\ op' = "calculate_forecast_18m_plus"
    /\ UNCHANGED <<planVars, prior_year_smooth, adjustments, outsideAdjust>>

\* calculate_adj_forecast
CalculateAdjForecast ==
    /\ op = "none"
    /\ AllPresent(prior_year_smooth)
    /\ adj_forecast' = Column(tps_adj_forecast(prior_year_smooth, week_dates, today, adjustments))
    /\ op' = "calculate_adj_forecast"
    /\ UNCHANGED <<planVars, prior_year_smooth, adjustments, outsideAdjust>>

\* Forecast18MonthPlusV2._calc_forecast_columns, column O
CalcForecastColumns ==
    /\ op = "none"
    /\ adj_forecast' = Column(v2_adj_forecast(prior_year_smooth, week_dates, today, adjustments))
    /\ op' = "_calc_forecast_columns"
    /\ UNCHANGED <<planVars, prior_year_smooth, adjustments, outsideAdjust>>

\* Forecast18MonthPlus._generate_forecast, over rows that have a base
GenerateForecast ==
    /\ op = "none"
    /\ AllPresent(prior_year_smooth)
    /\ adj_forecast' =
           Column(legacy_adj_forecast(prior_year_smooth, week_dates, today, adjustments))
    /\ op' = "_generate_forecast"
    /\ UNCHANGED <<planVars, prior_year_smooth, adjustments, outsideAdjust>>

NextAdjust ==
    \/ CalculateForecast18mPlusColumnO
    \/ CalculateAdjForecast
    \/ CalcForecastColumns
    \/ GenerateForecast

SpecAdjust == InitAdjust /\ [][NextAdjust]_vars

\* every future row with a prior-year value holds that value times
\* (1 + velocity_weight * velocity_adjustment + market_adjustment), and every
\* row before today holds zero or nothing
AdditiveForecast ==
    /\ Len(adj_forecast) = Len(prior_year_smooth)
    /\ \A k \in 1..Len(prior_year_smooth) :
           IF week_dates[k] >= today
           THEN ~IsNone(prior_year_smooth[k]) =>
                    /\ ~IsNone(adj_forecast[k])
                    /\ Val(adj_forecast[k]) =
                           Val(prior_year_smooth[k]) * additive_adjustment(adjustments)
           ELSE IsNone(adj_forecast[k]) \/ Val(adj_forecast[k]) = 0

\* C26: in calculate_forecast_18m_plus, calculate_adj_forecast,
\* Forecast18MonthPlusV2._calc_forecast_columns and
\* Forecast18MonthPlus._generate_forecast the adjusted forecast of a future
\* week is prior_year_smooth * (1 + velocity_weight * velocity_adjustment +
\* market_adjustment), the two adjustments added, and it is zero or absent for
\* every week before today.
C26_AdjustedForecast ==
    op \in {"calculate_forecast_18m_plus", "calculate_adj_forecast", "_calc_forecast_columns",
            "_generate_forecast"} => AdditiveForecast

\* the same of the three implementations other than the legacy class
C26_AdjustedForecastTpsV2 ==
    op \in {"calculate_forecast_18m_plus", "calculate_adj_forecast", "_calc_forecast_columns"}
        => AdditiveForecast

\* ---------------------------------------------------------------------------
\* The 18m+ chain G -> H -> I -> J -> K -> L -> velocity -> O on a whole
\* history.  Columns H, I, J, K, L are in hundredths, each division rounded to
\* the nearest hundredth; the velocity and the adjustment are in 1/10000; a
\* forecast is in millionths.
\* ---------------------------------------------------------------------------
FlatLevels == {10, 20, 30, 40, 50, 60, 70, 80, 90, 100}
FlatWeeks == {80, 92, 104}
TodayOffsets == {1, 2, 7}

\* calculate_units_final_smooth(final_curve, original_length=n)
units_final_smooth_of(G, n) ==
    Column([k \in 1..n |->
        LET f == weighted_average(SomeAll(G), SMOOTH_WEIGHTS_H, k - 1)
        IN  RoundHalfEven(f.num * 100, f.den * 12)])

\* calculate_units_final_smooth_85: v * 0.85 if v else 0
units_final_smooth_85_of(H) ==
    Column([k \in 1..Len(H) |-> IF H[k] # 0 THEN RoundHalfEven(H[k] * 85, 100) ELSE 0])

\* extended_dates: the rows' dates and 104 further weeks
extended_dates_of(wd) ==
    wd \o [i \in 1..104 |-> wd[Len(wd)] + 7 * i]

\* extended_j: i_value_lookup.get(week_end - 364 days, 0)
extended_j_of(I, wd, ext) ==
    Column([k \in 1..Len(ext) |->
        LET prior == {j \in 1..Len(wd) : wd[j] = ext[k] - 364}
        IN  IF prior = {} THEN 0 ELSE I[SetMax(prior)]])

\* extended_L: weighted_average(extended_k, [1, 3, 5, 7, 5, 3, 1], i)
extended_L_of(K) ==
    Column([k \in 1..Len(K) |->
        LET f == weighted_average(K, SMOOTH_WEIGHTS_L, k - 1)
        IN  RoundHalfEven(f.num, f.den)])

\* calculate_sales_velocity_adjustment: the last value of column N that is
\* not None, 0.0 when there is none; in 1/10000
calculate_sales_velocity_adjustment(I, L, wd, t) ==
    LET historical == Cardinality({k \in 1..Len(wd) : wd[k] < t})
        valid == 1..Min2(historical, Len(I))
    IN  IF valid = {} THEN 0
        ELSE LET v == velocity_of(SomeAll(I), SomeAll(L), SetMax(valid) - 1)
             IN  RoundHalfEven(v.num * 10000, v.den)

\* calculate_forecast_18m_plus with the default settings, as far as column O:
\* the velocity adjustment, the adjustment factor and the adjusted forecast of
\* the first row that ends today or later
forecast_18m_plus_chain(rows, wd, t) ==
    LET n == Len(rows)
        G == Column(calculate_units_final_curve(SomeAll(rows), extend_weeks))
        H == units_final_smooth_of(G, n)
        I == units_final_smooth_85_of(H)
        ext == extended_dates_of(wd)
        J == extended_j_of(I, wd, ext)
        K == Column(tps_prior_year_k(SomeAll(J)))
        L == extended_L_of(K)
        velocity == calculate_sales_velocity_adjustment(I, SubSeq(L, 1, n), wd, t)
        adjustment == 10000 + 100 * dict_get(DEFAULT_SETTINGS_dict, "market_adjustment", 5)
                      + RoundHalfEven(velocity * dict_get(DEFAULT_SETTINGS_dict, "velocity_weight", 15), 100)
        future == {k \in 1..Len(ext) : ext[k] >= t}
        first == CHOOSE k \in future : \A m \in future : k <= m
    IN  [sales_velocity_adjustment |-> velocity,
         adjustment_factor |-> adjustment,
         prior_year_smooth |-> L[first],
         forecast |-> L[first] * adjustment]

InitFlat ==
    /\ op = "none"
    /\ OthersIdle("flat")
    /\ \E level \in FlatLevels, n \in FlatWeeks :
           /\ flat_units = [k \in 1..n |-> level]
           /\ history_dates = WeeklyDates(5, n)
    /\ \E off \in TodayOffsets : flat_today = history_dates[Len(history_dates)] + off
    /\ flat_result = None

\* calculate_forecast_18m_plus(units_data, today, DEFAULT_SETTINGS)
CalculateForecast18mPlusFlat ==
    /\ op = "none"
    /\ flat_result' = Some(forecast_18m_plus_chain(flat_units, history_dates, flat_today))
    /\ op' = "calculate_forecast_18m_plus"
    /\ UNCHANGED <<flat_units, history_dates, flat_today, outsideFlat>>

NextFlat == CalculateForecast18mPlusFlat

SpecFlat == InitFlat /\ [][NextFlat]_vars

\* 104 weeks of 100 units, today at the start of week 105
FlatScenario ==
    /\ flat_units = [k \in 1..104 |-> 100]
    /\ flat_today \in {history_dates[104] + 1, history_dates[104] + 2}

\* C27: for 104 consecutive weeks of 100 units with today at the start of week
\* 105 and the default settings, calculate_forecast_18m_plus computes a
\* velocity adjustment of 0, an adjustment factor of 1.05 and a forecast of
\* 100 * 0.85 * 1.05 for the first future week.
C27_FlatVelocity ==
    (op = "calculate_forecast_18m_plus" /\ FlatScenario) =>
        /\ Val(flat_result).sales_velocity_adjustment = 0
        /\ Val(flat_result).adjustment_factor = 10500
        /\ Val(flat_result).forecast = 100 * 85 * 10500

\* in the same scenario the prior-year value of the first future week is
\* 100 * 0.85 and the velocity adjustment is negative
C27_FlatVelocityIsNegative ==
    (op = "calculate_forecast_18m_plus" /\ FlatScenario) =>
        /\ Val(flat_result).prior_year_smooth = 8500
        /\ Val(flat_result).sales_velocity_adjustment < 0

\* C28: calculate_doi is monotone in the starting inventory: for the forecast
\* series, week dates and today of the call, every inventory not above the
\* one given has a doi_days not above the one returned; so doi_fba_days <=
\* doi_total_days in every algorithm result whose fba_available is not above
\* its total_inventory, the switch from the in-horizon run-out to the
\* never-runs-out branch included.
C28_DoiMonotone ==
    op \in {"calculate_doi", "calculate_forecast_18m_plus.doi_total",
            "calculate_forecast_6_18m.doi_total", "calculate_forecast_0_6m_exact.doi_total"} =>
        \A fba_available \in 0..settings.total_inventory :
            calculate_doi(forecasts, week_dates, fba_available, today).doi_days <= Val(doi_days)

\* ---------------------------------------------------------------------------
\* The seasonality curve as calculate_forecast_6_18m builds it inline, in the
\* units of the smoothing chain above (H in 1/432).
\* ---------------------------------------------------------------------------

\* C = [max(B[max(0, i-2):i+1]) for i in range(n)] with one row less in the
\* window
inline_column_C_two_rows(B) ==
    Column([n \in 1..54 |->
        LET i == n - 1 IN SetMax({B[j + 1] : j \in Max2(0, i - 1)..i})])

\* C = [max(B[max(0, i-2):i+1]) for i in range(n)]
inline_column_C(B) ==
    Column([n \in 1..54 |->
        LET i == n - 1 IN SetMax({B[j + 1] : j \in Max2(0, i - 2)..i})])

\* B: weeks 1..54, the search_volume of the weeks <= 52 that have a row
inline_column_B(product_sv) ==
    Column([w \in 1..54 |->
        IF w \in SvWeeks(product_sv) /\ w <= 52
        THEN Val(product_sv[sv_by_week(product_sv, w)]) ELSE 0])

\* E and G: (X[0] + X[1]) / 2, (X[i-1] + X[i]) / 2 in the last row,
\* (X[i-1] + X[i] + X[i+1]) / 3 between; in 1/6 of the unit of X
inline_centred_average(X) ==
    Column([n \in 1..54 |->
        LET i == n - 1
        IN  IF i = 0 THEN 3 * (X[1] + X[2])
            ELSE IF i >= 54 - 1 THEN 3 * (X[n - 1] + X[n])
            ELSE 2 * (X[n - 1] + X[n] + X[n + 1])])

\* the columns B .. H, the seasonal volume I = H * 0.97 (in 1/43200) and the
\* index J = round(H / max_H, 2) (in hundredths) of weeks 1..52
inline_seasonality_chain(product_sv) ==
    LET B == inline_column_B(product_sv)
        C == inline_column_C(B)
        D == Column([n \in 1..54 |-> IF n - 1 < 54 - 1 THEN C[n] + C[n + 1] ELSE 0])
        E == inline_centred_average(D)
        F == Column([n \in 1..54 |-> 12 * B[n] + 6 * D[n] + E[n]])
        G == inline_centred_average(F)
        H == Column([n \in 1..54 |-> IF n - 1 < 54 - 1 THEN G[n] + G[n + 1] ELSE 0])
        H_52 == SubSeq(H, 1, 52)
        largest == SetMax({H_52[n] : n \in 1..52})
        max_H == IF largest <= 0 THEN 432 ELSE largest
    IN  [B |-> B, H |-> H,
         sv_smooth_env_97_lookup |-> Column([w \in 1..52 |-> H_52[w] * 97]),
         seasonality_idx_lookup |-> Column([w \in 1..52 |-> RoundHalfEven(100 * H_52[w], max_H)])]

\* calculate_forecast_6_18m as far as its two lookups: they stay empty
\* without search volume or with fewer than 3 distinct weeks
CalculateForecast6_18mInline ==
    /\ op = "none"
    /\ IF units_history = <<>> /\ SvRows(product_search_volume) = {} /\ seasonality_data = <<>>
       THEN UNCHANGED <<seasonality_idx_lookup, sv_chain, has_sv_data>>
       ELSE IF SvRows(product_search_volume) # {}
               /\ Cardinality(SvWeeks(product_search_volume)) >= 3
       THEN LET r == inline_seasonality_chain(product_search_volume)
            IN  /\ seasonality_idx_lookup' = r.seasonality_idx_lookup
                /\ sv_chain' = r
                /\ has_sv_data' = TRUE
       ELSE /\ seasonality_idx_lookup' = <<>>
            /\ sv_chain' = <<>>
            /\ has_sv_data' = FALSE
    /\ op' = "calculate_forecast_6_18m.lookups"
    /\ UNCHANGED <<seasonInputs, ratioInputs, needs_seasonality, idx_now, forecast_error,
                   conversion, peak_conversion, N_values>>
    /\ UNCHANGED outsideSeason

NextCopies == CalculatePerProductSeasonality \/ CalculateForecast6_18mInline

SpecCopies == InitSeason /\ [][NextCopies]_vars

\* C29: the seasonality_index of weeks 1..52 that calculate_forecast_6_18m
\* computes inline equals what calculate_per_product_seasonality returns for
\* the same search volume, the two are empty for the same inputs, and the
\* inline seasonal volume of a week is 0.97 times the H the index of that week
\* was normalised from.
C29_CopiesAgree ==
    op = "calculate_forecast_6_18m.lookups" =>
        /\ seasonality_idx_lookup = calculate_per_product_seasonality(product_search_volume)
        /\ (seasonality_idx_lookup = <<>>) = ~has_sv_data
        /\ has_sv_data =>
               \A w \in 1..52 :
                   /\ 100 * sv_chain.sv_smooth_env_97_lookup[w] = 97 * (100 * sv_chain.H[w])
                   /\ seasonality_idx_lookup[w] =
                          RoundHalfEven(100 * sv_chain.H[w], max_H_of(sv_chain.H))

\* the inline copy has run on a product whose curve is not flat
C29_Witness ==
    /\ op = "calculate_forecast_6_18m.lookups"
    /\ has_sv_data
    /\ \E w \in 1..52 : seasonality_idx_lookup[w] \notin {0, 100}
    /\ \E w \in 1..52 : sv_chain.sv_smooth_env_97_lookup[w] > 0

\* ---------------------------------------------------------------------------
\* CacheService.refresh_all_forecasts over a small catalogue.  A cache row
\* keeps asin, algorithm, computed_at and expires_at (hours); the forecast
\* numbers of a row play no part in what the table holds.
\* ---------------------------------------------------------------------------
MaxSalesRows == 4
MaxRefreshes == 2

\* CACHE_DURATION_HOURS = 24
CACHE_DURATION_HOURS == 24

\* Product.query.all(): the ASINs of the catalogue
CataloguedProducts == {"B0OLD", "B0NEW"}

\* the week_date of the first sales row of a product
LaunchDay(a) == IF a = "B0OLD" THEN -600 ELSE -28

\* what happens to one product inside the loop: the 18m+ algorithm returns,
\* it raises and the simple average is taken, that raises too, or
\* get_inventory_levels raises
ProductOutcomes == {"18m+", "simple", "fallback", "inventory_raises"}

\* the algorithm label of a cache row
cache_algorithm(age_days, outcome) ==
    LET by_age == refresh_all_forecasts_algorithm(age_days)
    IN  IF outcome = "18m+"
        THEN (IF by_age # "18m+" THEN by_age \o "->18m+" ELSE by_age)
        ELSE outcome

\* the body of the loop for one product: the rows it appends to results
cache_entries_of(a, sold, outcome, today_date, now) ==
    IF IsNone(sold.first_sale) THEN {}
    ELSE IF sold.rows < 4 THEN {}
    ELSE IF outcome = "inventory_raises" THEN {}
    ELSE {[asin |-> a,
           algorithm |-> cache_algorithm(today_date - Val(sold.first_sale), outcome),
           computed_at |-> now,
           expires_at |-> now + CACHE_DURATION_HOURS]}

\* results after the loop over the products
refresh_results_of(sold, outcomes, now) ==
    UNION {cache_entries_of(a, sold[a], outcomes[a], now \div 24, now) : a \in CataloguedProducts}

\* the table is emptied and refilled whatever the results
cache_after_refresh_unguarded(cache, results) == results

\* if results: ForecastCache.query.delete(); bulk_insert_mappings; commit
cache_after_refresh(cache, results) == IF results # {} THEN results ELSE cache

InitCache ==
    /\ op = "none"
    /\ OthersIdle("cache")
    /\ units_sold = [a \in CataloguedProducts |-> [rows |-> 0, first_sale |-> None]]
    /\ forecast_cache = {}
    /\ utc_now = 0
    /\ refresh_results = {}
    /\ refreshes = 0

\* a weekly row of units_sold arrives for a product, between two runs
ImportSales ==
    /\ \E a \in CataloguedProducts, sold_units \in {0, 2} :
           /\ units_sold[a].rows < MaxSalesRows
           /\ units_sold' =
                  [units_sold EXCEPT ![a] =
                      [rows |-> @.rows + 1,
                       first_sale |-> IF IsNone(@.first_sale) /\ sold_units > 0
                                      THEN Some(LaunchDay(a) + 7 * @.rows)
                                      ELSE @.first_sale]]
    /\ op' = "import_sales"
    /\ UNCHANGED <<forecast_cache, utc_now, refresh_results, refreshes, outsideCache>>

\* CacheService.refresh_all_forecasts, one whole run; the next run starts an
\* hour later
RefreshAllForecasts ==
    /\ refreshes < MaxRefreshes
    /\ \E outcomes \in [CataloguedProducts -> ProductOutcomes] :
           LET results == refresh_results_of(units_sold, outcomes, utc_now)
           IN  /\ refresh_results' = results
               /\ forecast_cache' = cache_after_refresh(forecast_cache, results)
    /\ utc_now' = utc_now + 1
    /\ refreshes' = refreshes + 1
    /\ op' = "refresh_all_forecasts"
    /\ UNCHANGED <<units_sold, outsideCache>>

NextCache == ImportSales \/ RefreshAllForecasts

SpecCache == InitCache /\ [][NextCache]_vars

\* a product that has a first sale and at least 4 weekly sales rows
Cacheable(a) == ~IsNone(units_sold[a].first_sale) /\ units_sold[a].rows >= 4

\* one run: with results the table holds exactly them, one row at most per
\* ASIN, of cacheable products, expiring 24 hours after computed_at; without
\* results the table is as it was
RefreshReplaces ==
    refreshes' = refreshes + 1 =>
        IF refresh_results' # {}
        THEN /\ forecast_cache' = refresh_results'
             /\ \A e \in forecast_cache' :
                    /\ Cacheable(e.asin)
                    /\ e.computed_at = utc_now
                    /\ e.expires_at = e.computed_at + 24
             /\ \A e1, e2 \in forecast_cache' : e1.asin = e2.asin => e1 = e2
        ELSE forecast_cache' = forecast_cache

\* C30: after any sequence of runs of refresh_all_forecasts that do not
\* overlap, a run that produced a result leaves in the cache exactly its own
\* entries, at most one per ASIN and only of products with a first sale and at
\* least 4 weekly sales rows, each with expires_at = computed_at + 24 hours;
\* a run that produced no result leaves the cache as it was.
C30_CacheRefresh == [][RefreshReplaces]_vars

\* a second run produced nothing and the rows of the first are still there
C30_Witness ==
    /\ op = "refresh_all_forecasts"
    /\ refreshes = 2
    /\ refresh_results = {}
    /\ forecast_cache # {}
    /\ \A e \in forecast_cache : e.computed_at = 0 /\ e.expires_at = 24
    /\ \E a \in CataloguedProducts : \A e \in forecast_cache : e.asin # a

=============================================================================
